---- MODULE Spec2Model ----
(***************************************************************************)
(* Model of the Pega When Rule tool layer (pega_agent/agent.py) and of the *)
(* expression compiler of the rule model (pega_agent/models.py).           *)
(*                                                                         *)
(* Text is a TLA+ string; Len, \o and SubSeq give Python's len, + and      *)
(* slicing.  An Optional[...] field is a sequence: <<>> is None and <<x>>  *)
(* is the value x.                                                         *)
(***************************************************************************)
EXTENDS Integers, Sequences, FiniteSets, TLC

\* ---------------------------------------------------------------- bounds
\* Largest number of conditions in a group of an enumerated rule.
MaxConds == 3
\* Largest number of groups in an enumerated rule.
MaxGroups == 2

\* ------------------------------------------------------- Optional values
None == <<>>
Some(x) == <<x>>
IsNone(o) == Len(o) = 0
Get(o) == o[1]

\* ------------------------------------------------------- Python str ops
\* s[i] for 1-based i
CharAt(s, i) == SubSeq(s, i, i)

\* str.startswith(p)
StartsWith(s, p) == Len(s) >= Len(p) /\ SubSeq(s, 1, Len(p)) = p

\* str.endswith(p)
EndsWith(s, p) == Len(s) >= Len(p) /\ SubSeq(s, Len(s) - Len(p) + 1, Len(s)) = p

\* str.replace(ch, '') for a one-character ch
RECURSIVE Remove(_, _)
Remove(s, ch) ==
    IF Len(s) = 0 THEN ""
    ELSE IF CharAt(s, 1) = ch THEN Remove(SubSeq(s, 2, Len(s)), ch)
    ELSE CharAt(s, 1) \o Remove(SubSeq(s, 2, Len(s)), ch)

Digits == {"0", "1", "2", "3", "4", "5", "6", "7", "8", "9"}

\* str.isdigit() on ASCII text: non-empty and every character a digit
IsDigit(s) == Len(s) > 0 /\ \A i \in 1..Len(s) : CharAt(s, i) \in Digits

\* sep.join(parts)
RECURSIVE Join(_, _)
Join(parts, sep) ==
    IF Len(parts) = 0 THEN ""
    ELSE IF Len(parts) = 1 THEN parts[1]
    ELSE parts[1] \o sep \o Join(Tail(parts), sep)

\* str(b).lower() for a bool b
BoolLower(b) == IF b THEN "true" ELSE "false"

\* x or "" for an Optional[str] x
OrEmpty(o) == IF IsNone(o) \/ Get(o) = "" THEN "" ELSE Get(o)

\* the ASCII letters, small and capital
LowerLetters == "abcdefghijklmnopqrstuvwxyz"
UpperLetters == "ABCDEFGHIJKLMNOPQRSTUVWXYZ"

\* the character at the place of ch in the letters to, when ch is one of the
\* letters from; otherwise ch
MapLetter(ch, from, to) ==
    IF \E i \in 1..Len(from) : CharAt(from, i) = ch
    THEN CharAt(to, CHOOSE i \in 1..Len(from) : CharAt(from, i) = ch)
    ELSE ch

\* str.lower() and str.upper() on ASCII text
RECURSIVE Lower(_)
Lower(s) ==
    IF Len(s) = 0 THEN ""
    ELSE MapLetter(CharAt(s, 1), UpperLetters, LowerLetters)
         \o Lower(SubSeq(s, 2, Len(s)))

RECURSIVE Upper(_)
Upper(s) ==
    IF Len(s) = 0 THEN ""
    ELSE MapLetter(CharAt(s, 1), LowerLetters, UpperLetters)
         \o Upper(SubSeq(s, 2, Len(s)))

\* sub in s, for two strings
Contains(s, sub) ==
    \E i \in 1..(Len(s) - Len(sub) + 1) : SubSeq(s, i, i + Len(sub) - 1) = sub

\* a variant that strips '.' only
StripsToDigits_KeepsDash(val) == IsDigit(Remove(val, "."))

\* the numeric test of the quoting rule:
\* val.replace('.', '').replace('-', '').isdigit()
StripsToDigits(val) == IsDigit(Remove(Remove(val, "."), "-"))

\* ------------------------------------------------------------- the enums
\* class Comparator, in definition order
ComparatorMembers ==
    << "EQUALS", "NOT_EQUALS", "GREATER_THAN", "GREATER_THAN_OR_EQUAL",
       "LESS_THAN", "LESS_THAN_OR_EQUAL", "IS_TRUE", "IS_FALSE", "IS_BLANK",
       "IS_NOT_BLANK", "CONTAINS", "STARTS_WITH", "ENDS_WITH", "IS_IN",
       "IS_NOT_IN" >>

Comparator == { ComparatorMembers[i] : i \in 1..Len(ComparatorMembers) }

\* Comparator.<member>.value
ComparatorValue(c) ==
    CASE c = "EQUALS" -> "is equal to"
      [] c = "NOT_EQUALS" -> "is not equal to"
      [] c = "GREATER_THAN" -> "is greater than"
      [] c = "GREATER_THAN_OR_EQUAL" -> "is greater than or equal to"
      [] c = "LESS_THAN" -> "is less than"
      [] c = "LESS_THAN_OR_EQUAL" -> "is less than or equal to"
      [] c = "IS_TRUE" -> "is true"
      [] c = "IS_FALSE" -> "is false"
      [] c = "IS_BLANK" -> "is blank"
      [] c = "IS_NOT_BLANK" -> "is not blank"
      [] c = "CONTAINS" -> "contains"
      [] c = "STARTS_WITH" -> "starts with"
      [] c = "ENDS_WITH" -> "ends with"
      [] c = "IS_IN" -> "is in"
      [] c = "IS_NOT_IN" -> "is not in"

\* class PegaFunction
PegaFunction ==
    { "EQUALS_IGNORE_CASE", "NOT_EQUALS_IGNORE_CASE", "CONTAINS", "STARTS_WITH",
      "ENDS_WITH", "GREATER_THAN", "GREATER_THAN_OR_EQUAL", "LESS_THAN",
      "LESS_THAN_OR_EQUAL", "TRIM", "IS_TRUE", "IS_FALSE", "IS_BLANK",
      "IS_NOT_BLANK", "CALL_WHEN", "IS_IN_PAGE_LIST" }

\* PegaFunction.<member>.value
PegaFunctionValue(f) ==
    CASE f = "EQUALS_IGNORE_CASE" -> "@equalsIgnoreCase"
      [] f = "NOT_EQUALS_IGNORE_CASE" -> "@notEqualsIgnoreCase"
      [] f = "CONTAINS" -> "@contains"
      [] f = "STARTS_WITH" -> "@startsWith"
      [] f = "ENDS_WITH" -> "@endsWith"
      [] f = "GREATER_THAN" -> "@greaterThan"
      [] f = "GREATER_THAN_OR_EQUAL" -> "@greaterThanOrEqual"
      [] f = "LESS_THAN" -> "@lessThan"
      [] f = "LESS_THAN_OR_EQUAL" -> "@lessThanOrEqual"
      [] f = "TRIM" -> "@trim"
      [] f = "IS_TRUE" -> "@isTrue"
      [] f = "IS_FALSE" -> "@isFalse"
      [] f = "IS_BLANK" -> "@isBlank"
      [] f = "IS_NOT_BLANK" -> "@isNotBlank"
      [] f = "CALL_WHEN" -> "@Utilities.callWhen"
      [] f = "IS_IN_PAGE_LIST" -> "@IsInPageListWhen"

\* class LogicalOperator
LogicalOperator == {"AND", "OR"}

\* class ConditionType
ConditionType == {"PROPERTY_COMPARISON", "RULE_REFERENCE", "FUNCTION_CALL"}

\* ------------------------------------------------------ the model classes
\* class Condition
Condition(ctype, prop, comp, func, val, trim, isprop, rname, evalto) ==
    [ condition_type |-> ctype,
      property_reference |-> prop,
      comparator |-> comp,
      pega_function |-> func,
      compare_value |-> val,
      apply_trim |-> trim,
      compare_value_is_property |-> isprop,
      referenced_rule |-> rname,
      rule_evaluates_to |-> evalto ]

\* class ConditionGroup
ConditionGroup(conds, op) == [ conditions |-> conds, operator |-> op ]

\* class WhenRule
WhenRule(name, applies, descr, groups, gop, cid) ==
    [ rule_name |-> name,
      applies_to |-> applies,
      description |-> descr,
      condition_groups |-> groups,
      group_operator |-> gop,
      campaign_id |-> cid ]

\* -------------------------------------------------- expression compiler
\* "&&" if operator == LogicalOperator.AND else "||"
OpSymbol(op) == IF op = "AND" THEN "&&" ELSE "||"

MagnitudeFunctions ==
    {"GREATER_THAN", "LESS_THAN", "GREATER_THAN_OR_EQUAL", "LESS_THAN_OR_EQUAL"}

\* a variant that does not treat @isBlank as unary
UnaryFunctions_WithoutIsBlank == {"IS_TRUE", "IS_FALSE", "IS_NOT_BLANK"}

UnaryFunctions == {"IS_TRUE", "IS_FALSE", "IS_BLANK", "IS_NOT_BLANK"}

MagnitudeComparators ==
    {"GREATER_THAN", "LESS_THAN", "GREATER_THAN_OR_EQUAL", "LESS_THAN_OR_EQUAL"}

UnaryComparators == {"IS_TRUE", "IS_FALSE", "IS_BLANK", "IS_NOT_BLANK"}

\* WhenRule._build_function_expr: the function named by cond.pega_function
_build_function_expr(cond) ==
    LET prop0 == OrEmpty(cond.property_reference)
        func == Get(cond.pega_function)
        prop == IF cond.apply_trim /\ func \notin MagnitudeFunctions
                THEN "@trim(" \o prop0 \o ")" ELSE prop0
        val0 == OrEmpty(cond.compare_value)
        val == IF ~cond.compare_value_is_property /\ ~StartsWith(val0, "\"")
                  /\ ~StripsToDigits(val0)
               THEN "\"" \o val0 \o "\"" ELSE val0
    IN IF func \in UnaryFunctions
       THEN PegaFunctionValue(func) \o "(" \o prop \o ")"
       ELSE PegaFunctionValue(func) \o "(" \o prop \o ", " \o val \o ")"

\* func_map of _build_function_expr_from_comparator: the keys ...
FuncMapKeys ==
    { "EQUALS", "NOT_EQUALS", "GREATER_THAN", "GREATER_THAN_OR_EQUAL",
      "LESS_THAN", "LESS_THAN_OR_EQUAL", "CONTAINS", "STARTS_WITH",
      "ENDS_WITH", "IS_TRUE", "IS_FALSE", "IS_BLANK", "IS_NOT_BLANK" }

\* a variant with two rows of the table swapped
FuncMap_SwappedRows(comp) ==
    CASE comp = "EQUALS" -> "EQUALS_IGNORE_CASE"
      [] comp = "NOT_EQUALS" -> "NOT_EQUALS_IGNORE_CASE"
      [] comp = "GREATER_THAN" -> "GREATER_THAN"
      [] comp = "GREATER_THAN_OR_EQUAL" -> "GREATER_THAN_OR_EQUAL"
      [] comp = "LESS_THAN" -> "LESS_THAN"
      [] comp = "LESS_THAN_OR_EQUAL" -> "LESS_THAN_OR_EQUAL"
      [] comp = "CONTAINS" -> "CONTAINS"
      [] comp = "STARTS_WITH" -> "ENDS_WITH"
      [] comp = "ENDS_WITH" -> "STARTS_WITH"
      [] comp = "IS_TRUE" -> "IS_TRUE"
      [] comp = "IS_FALSE" -> "IS_FALSE"
      [] comp = "IS_BLANK" -> "IS_BLANK"
      [] comp = "IS_NOT_BLANK" -> "IS_NOT_BLANK"

\* ... and func_map[comp] for a key comp
FuncMap(comp) ==
    CASE comp = "EQUALS" -> "EQUALS_IGNORE_CASE"
      [] comp = "NOT_EQUALS" -> "NOT_EQUALS_IGNORE_CASE"
      [] comp = "GREATER_THAN" -> "GREATER_THAN"
      [] comp = "GREATER_THAN_OR_EQUAL" -> "GREATER_THAN_OR_EQUAL"
      [] comp = "LESS_THAN" -> "LESS_THAN"
      [] comp = "LESS_THAN_OR_EQUAL" -> "LESS_THAN_OR_EQUAL"
      [] comp = "CONTAINS" -> "CONTAINS"
      [] comp = "STARTS_WITH" -> "STARTS_WITH"
      [] comp = "ENDS_WITH" -> "ENDS_WITH"
      [] comp = "IS_TRUE" -> "IS_TRUE"
      [] comp = "IS_FALSE" -> "IS_FALSE"
      [] comp = "IS_BLANK" -> "IS_BLANK"
      [] comp = "IS_NOT_BLANK" -> "IS_NOT_BLANK"

\* func_map.get(comp) for an Optional comparator
FuncMapGet(comp) ==
    IF ~IsNone(comp) /\ Get(comp) \in FuncMapKeys
    THEN Some(FuncMap(Get(comp))) ELSE None

\* a variant that trims whenever apply_trim is set, also for magnitudes
TrimmedProp_IgnoresNumeric(prop, apply_trim, is_numeric) ==
    IF apply_trim THEN "@trim(" \o prop \o ")" ELSE prop

\* the property argument of _build_function_expr_from_comparator
TrimmedProp(prop, apply_trim, is_numeric) ==
    IF apply_trim /\ ~is_numeric THEN "@trim(" \o prop \o ")" ELSE prop

\* a variant that leaves a missing value unquoted
QuotedValue_BlankUnquoted(val, is_numeric) ==
    IF ~is_numeric /\ val # "" /\ ~StartsWith(val, "\"") /\ ~StripsToDigits(val)
    THEN "\"" \o val \o "\"" ELSE val

\* the value argument of _build_function_expr_from_comparator
QuotedValue(val, is_numeric) ==
    IF ~is_numeric /\ ~StartsWith(val, "\"") /\ ~StripsToDigits(val)
    THEN "\"" \o val \o "\"" ELSE val

\* a variant whose fallback trims the property and quotes the value
_build_function_expr_from_comparator_DressedFallback(cond) ==
    LET prop0 == OrEmpty(cond.property_reference)
        comp == cond.comparator
        val0 == OrEmpty(cond.compare_value)
        func == FuncMapGet(comp)
        is_numeric == ~IsNone(comp) /\ Get(comp) \in MagnitudeComparators
        prop == TrimmedProp(prop0, cond.apply_trim, is_numeric)
        val == QuotedValue(val0, is_numeric)
    IN IF IsNone(func)
       THEN "(" \o prop \o " == " \o val \o ")"
       ELSE IF Get(func) \in UnaryFunctions
       THEN PegaFunctionValue(Get(func)) \o "(" \o prop \o ")"
       ELSE PegaFunctionValue(Get(func)) \o "(" \o prop \o ", " \o val \o ")"

\* WhenRule._build_function_expr_from_comparator
_build_function_expr_from_comparator(cond) ==
    LET prop0 == OrEmpty(cond.property_reference)
        comp == cond.comparator
        val0 == OrEmpty(cond.compare_value)
        func == FuncMapGet(comp)
        is_numeric == ~IsNone(comp) /\ Get(comp) \in MagnitudeComparators
        prop == TrimmedProp(prop0, cond.apply_trim, is_numeric)
        val == QuotedValue(val0, is_numeric)
    IN IF IsNone(func)
       THEN "(" \o prop0 \o " == " \o val0 \o ")"
       ELSE IF Get(func) \in UnaryFunctions
       THEN PegaFunctionValue(Get(func)) \o "(" \o prop \o ")"
       ELSE PegaFunctionValue(Get(func)) \o "(" \o prop \o ", " \o val \o ")"

\* the '{Rule ...}' token of _condition_to_expr
RuleToken(name, evaluates_to) ==
    "{Rule " \o name \o " evaluates to "
        \o (IF evaluates_to THEN "true" ELSE "false") \o "}"

\* a variant that quotes a non-numeric value also when it names a property
SimpleExpr_QuotesProperty(cond) ==
    LET prop == OrEmpty(cond.property_reference)
    IN IF IsNone(cond.comparator) THEN prop
       ELSE LET comp == ComparatorValue(Get(cond.comparator))
            IN IF Get(cond.comparator) \in UnaryComparators
               THEN prop \o " " \o comp
               ELSE LET val ==
                          IF IsNone(cond.compare_value) THEN "None"
                          ELSE IF ~StartsWith(Get(cond.compare_value), "\"")
                                  /\ ~StripsToDigits(Get(cond.compare_value))
                          THEN "\"" \o Get(cond.compare_value) \o "\""
                          ELSE Get(cond.compare_value)
                    IN prop \o " " \o comp \o " " \o val

\* the simple-syntax branch of _condition_to_expr
SimpleExpr(cond) ==
    LET prop == OrEmpty(cond.property_reference)
    IN IF IsNone(cond.comparator) THEN prop
       ELSE LET comp == ComparatorValue(Get(cond.comparator))
            IN IF Get(cond.comparator) \in UnaryComparators
               THEN prop \o " " \o comp
               ELSE LET val ==
                          IF IsNone(cond.compare_value) THEN "None"
                          ELSE IF ~cond.compare_value_is_property
                                  /\ ~StartsWith(Get(cond.compare_value), "\"")
                                  /\ ~StripsToDigits(Get(cond.compare_value))
                          THEN "\"" \o Get(cond.compare_value) \o "\""
                          ELSE Get(cond.compare_value)
                    IN prop \o " " \o comp \o " " \o val

\* cond.condition_type == RULE_REFERENCE and cond.referenced_rule
TakesRulePath(cond) ==
    /\ cond.condition_type = "RULE_REFERENCE"
    /\ ~IsNone(cond.referenced_rule)
    /\ Get(cond.referenced_rule) # ""

\* a variant that decides on the condition type alone, whatever the rule name
_condition_to_expr_ByTypeAlone(cond, use_pega_functions) ==
    IF cond.condition_type = "RULE_REFERENCE"
    THEN RuleToken(OrEmpty(cond.referenced_rule), cond.rule_evaluates_to)
    ELSE IF use_pega_functions /\ ~IsNone(cond.pega_function)
    THEN _build_function_expr(cond)
    ELSE IF use_pega_functions
    THEN _build_function_expr_from_comparator(cond)
    ELSE SimpleExpr(cond)

\* WhenRule._condition_to_expr
_condition_to_expr(cond, use_pega_functions) ==
    IF TakesRulePath(cond)
    THEN RuleToken(Get(cond.referenced_rule), cond.rule_evaluates_to)
    ELSE IF use_pega_functions /\ ~IsNone(cond.pega_function)
    THEN _build_function_expr(cond)
    ELSE IF use_pega_functions
    THEN _build_function_expr_from_comparator(cond)
    ELSE SimpleExpr(cond)

\* a variant that renders a group without conditions as the empty string
GroupExpression_EmptyIsBlank(conditions_str, group_op) ==
    IF Len(conditions_str) = 0 THEN ""
    ELSE IF Len(conditions_str) = 1 THEN conditions_str[1]
    ELSE "(" \o Join(conditions_str, " " \o group_op \o " ") \o ")"

\* a variant that parenthesises every group, also one of a single condition
GroupExpression_AlwaysWrapped(conditions_str, group_op) ==
    "(" \o Join(conditions_str, " " \o group_op \o " ") \o ")"

\* one group's entry of group_expressions in to_expression
GroupExpression(conditions_str, group_op) ==
    IF Len(conditions_str) = 1 THEN conditions_str[1]
    ELSE "(" \o Join(conditions_str, " " \o group_op \o " ") \o ")"

\* a variant that parenthesises the join of two or more groups
JoinGroups_Wrapped(group_expressions, op_symbol) ==
    IF Len(group_expressions) = 1 THEN group_expressions[1]
    ELSE IF Len(group_expressions) = 0 THEN ""
    ELSE "(" \o Join(group_expressions, " " \o op_symbol \o " ") \o ")"

\* a variant that treats no group like an empty group
JoinGroups_EmptyAsGroup(group_expressions, op_symbol) ==
    IF Len(group_expressions) = 1 THEN group_expressions[1]
    ELSE IF Len(group_expressions) = 0 THEN "()"
    ELSE Join(group_expressions, " " \o op_symbol \o " ")

\* the return value of to_expression from group_expressions
JoinGroups(group_expressions, op_symbol) ==
    IF Len(group_expressions) = 1 THEN group_expressions[1]
    ELSE Join(group_expressions, " " \o op_symbol \o " ")

\* the default of the parameter use_pega_functions of to_expression
DefaultUsePegaFunctions == TRUE

\* WhenRule.to_expression
to_expression(rule, use_pega_functions) ==
    LET op_symbol == OpSymbol(rule.group_operator)
        group_expressions ==
            [ g \in 1..Len(rule.condition_groups) |->
                LET group == rule.condition_groups[g]
                    conditions_str ==
                        [ c \in 1..Len(group.conditions) |->
                            _condition_to_expr(group.conditions[c],
                                               use_pega_functions) ]
                IN GroupExpression(conditions_str, OpSymbol(group.operator)) ]
    IN JoinGroups(group_expressions, op_symbol)

\* f"{x}" for an Optional[str] x
FormatOpt(o) == IF IsNone(o) THEN "None" ELSE Get(o)

\* concatenation of a sequence of sequences
RECURSIVE Flatten(_)
Flatten(seqs) == IF Len(seqs) = 0 THEN <<>> ELSE Head(seqs) \o Flatten(Tail(seqs))

\* the block to_pega_xml emits for one condition
ConditionXml(cond) ==
    IF cond.condition_type = "RULE_REFERENCE"
    THEN "    <ruleReference>\n"
         \o "      <ruleName>" \o FormatOpt(cond.referenced_rule) \o "</ruleName>\n"
         \o "      <evaluatesTo>" \o BoolLower(cond.rule_evaluates_to)
         \o "</evaluatesTo>\n"
         \o "    </ruleReference>"
    ELSE "    <condition>\n"
         \o "      <propertyRef>" \o OrEmpty(cond.property_reference)
         \o "</propertyRef>\n"
         \o "      <comparator>"
         \o (IF IsNone(cond.comparator) THEN ""
             ELSE ComparatorValue(Get(cond.comparator)))
         \o "</comparator>\n"
         \o "      <compareValue>" \o OrEmpty(cond.compare_value)
         \o "</compareValue>\n"
         \o "      <compareValueIsProperty>"
         \o BoolLower(cond.compare_value_is_property)
         \o "</compareValueIsProperty>\n"
         \o "    </condition>"

\* a variant that puts the markers after every condition and every group
ConditionsXml_Postfix(rule) ==
    LET groups == rule.condition_groups
        CondPart(group, c) ==
            <<ConditionXml(group.conditions[c]),
              "    <operator>" \o OpSymbol(group.operator) \o "</operator>">>
        GroupPart(g) ==
            Flatten([ c \in 1..Len(groups[g].conditions) |-> CondPart(groups[g], c) ])
            \o <<"    <groupOperator>" \o OpSymbol(rule.group_operator)
                 \o "</groupOperator>">>
    IN Flatten([ g \in 1..Len(groups) |-> GroupPart(g) ])

\* the list conditions_xml that to_pega_xml builds
ConditionsXml(rule) ==
    LET groups == rule.condition_groups
        CondPart(group, c) ==
            <<ConditionXml(group.conditions[c])>>
            \o (IF c < Len(group.conditions)
                THEN <<"    <operator>" \o OpSymbol(group.operator) \o "</operator>">>
                ELSE <<>>)
        GroupPart(g) ==
            Flatten([ c \in 1..Len(groups[g].conditions) |-> CondPart(groups[g], c) ])
            \o (IF g < Len(groups)
                THEN <<"    <groupOperator>" \o OpSymbol(rule.group_operator)
                       \o "</groupOperator>">>
                ELSE <<>>)
    IN Flatten([ g \in 1..Len(groups) |-> GroupPart(g) ])

\* WhenRule.to_pega_xml
to_pega_xml(rule) ==
    "<?xml version=\"1.0\" encoding=\"UTF-8\"?>\n"
    \o "<pega:WhenRule xmlns:pega=\"http://www.pega.com/rules\">\n"
    \o "  <ruleName>" \o rule.rule_name \o "</ruleName>\n"
    \o "  <appliesTo>" \o rule.applies_to \o "</appliesTo>\n"
    \o "  <description>" \o rule.description \o "</description>\n"
    \o "  <campaignId>" \o OrEmpty(rule.campaign_id) \o "</campaignId>\n"
    \o "  <conditions>\n"
    \o Join(ConditionsXml(rule), "\n") \o "\n"
    \o "  </conditions>\n"
    \o "</pega:WhenRule>"

\* the record to_dict appends for one condition of a group
ConditionDict(cond, group) ==
    IF cond.condition_type = "RULE_REFERENCE"
    THEN [ pyConditionType |-> "rule",
           pyRuleName |-> cond.referenced_rule,
           pyEvaluatesTo |-> cond.rule_evaluates_to,
           pyLogicalOperator |-> OpSymbol(group.operator) ]
    ELSE [ pyConditionType |-> "property",
           pyPropertyRef |-> OrEmpty(cond.property_reference),
           pyComparator |-> IF IsNone(cond.comparator) THEN ""
                            ELSE ComparatorValue(Get(cond.comparator)),
           pyCompareValue |-> OrEmpty(cond.compare_value),
           pyCompareValueIsProperty |-> cond.compare_value_is_property,
           pyLogicalOperator |-> OpSymbol(group.operator) ]

\* a variant whose records carry the rule-level group_operator
to_dict_RuleLevelOperator(rule) ==
    LET groups == rule.condition_groups
        conditions_list ==
            Flatten([ g \in 1..Len(groups) |->
                        [ c \in 1..Len(groups[g].conditions) |->
                            ConditionDict(groups[g].conditions[c],
                                          [groups[g] EXCEPT !.operator =
                                                              rule.group_operator]) ] ])
    IN [ pxObjClass |-> "Rule-Obj-When",
         pyClassName |-> rule.applies_to,
         pyRuleName |-> rule.rule_name,
         pyDescription |-> rule.description,
         pyCampaignId |-> rule.campaign_id,
         pyConditions |-> conditions_list ]

\* WhenRule.to_dict
to_dict(rule) ==
    LET groups == rule.condition_groups
        conditions_list ==
            Flatten([ g \in 1..Len(groups) |->
                        [ c \in 1..Len(groups[g].conditions) |->
                            ConditionDict(groups[g].conditions[c], groups[g]) ] ])
    IN [ pxObjClass |-> "Rule-Obj-When",
         pyClassName |-> rule.applies_to,
         pyRuleName |-> rule.rule_name,
         pyDescription |-> rule.description,
         pyCampaignId |-> rule.campaign_id,
         pyConditions |-> conditions_list ]

\* ------------------------------------------------------------ JSON values
\* What json.loads yields: None, bool, int, str, list, or a dict kept as
\* its sequence of <<key, value>> pairs in document order.
JNull == [t |-> "null"]
JBool(b) == [t |-> "bool", b |-> b]
JNum(n) == [t |-> "num", n |-> n]
JStr(s) == [t |-> "str", s |-> s]
JList(items) == [t |-> "list", items |-> items]
JObj(members) == [t |-> "obj", members |-> members]

\* key in d, for a dict d
HasKey(d, k) == \E i \in 1..Len(d.members) : d.members[i][1] = k

\* d.get(k, default), for a dict d
DictGet(d, k, default) ==
    IF HasKey(d, k)
    THEN d.members[CHOOSE i \in 1..Len(d.members) : d.members[i][1] = k][2]
    ELSE default

\* A conditions_json text: one that json.loads rejects with the message e,
\* or the serialisation of the value json.loads returns for it.
Undecodable(text, e) == [decodable |-> FALSE, text |-> text, e |-> e]
Encoded(value) == [decodable |-> TRUE, value |-> value]

\* results of a step that may raise
Ok(v) == [ok |-> TRUE, v |-> v]
Raise(exc) == [ok |-> FALSE, exc |-> exc]

\* json.loads(conditions_json)
json_loads(doc) ==
    IF doc.decodable THEN Ok(doc.value) ELSE Raise("JSONDecodeError")

\* "for x in v": the items visited, or TypeError for a value that is not
\* iterable; a str yields its characters and a dict its keys
Iterate(v) ==
    CASE v.t = "list" -> Ok(v.items)
      [] v.t = "str" -> Ok([ i \in 1..Len(v.s) |-> JStr(CharAt(v.s, i)) ])
      [] v.t = "obj" -> Ok([ i \in 1..Len(v.members) |-> JStr(v.members[i][1]) ])
      [] OTHER -> Raise("TypeError")

\* pydantic validation of an Optional[str] field
ValidateOptStr(v) ==
    CASE v.t = "null" -> Ok(None)
      [] v.t = "str" -> Ok(Some(v.s))
      [] OTHER -> Raise("ValidationError")

\* pydantic validation of a bool field
ValidateBool(v) ==
    CASE v.t = "bool" -> Ok(v.b)
      [] v.t = "num" /\ v.n \in {0, 1} -> Ok(v.n = 1)
      [] v.t = "str" /\ v.s \in {"1", "on", "t", "true", "y", "yes"} -> Ok(TRUE)
      [] v.t = "str" /\ v.s \in {"0", "off", "f", "false", "n", "no"} -> Ok(FALSE)
      [] OTHER -> Raise("ValidationError")

\* the comparator loop of create_when_rule, from member i on
RECURSIVE FindComparator(_, _)
FindComparator(comp_str, i) ==
    IF i > Len(ComparatorMembers) THEN None
    ELSE IF comp_str.t = "str" /\ ComparatorValue(ComparatorMembers[i]) = comp_str.s
    THEN Some(ComparatorMembers[i])
    ELSE FindComparator(comp_str, i + 1)

\* a variant whose fallback is CONTAINS instead of EQUALS
ParseComparator_DefaultsToContains(cond) ==
    LET comp_str == DictGet(cond, "comparator", JStr("is equal to"))
        comparator == FindComparator(comp_str, 1)
    IN IF IsNone(comparator) THEN "CONTAINS" ELSE Get(comparator)

\* comparator of a property entry: the match, or EQUALS when there is none
ParseComparator(cond) ==
    LET comp_str == DictGet(cond, "comparator", JStr("is equal to"))
        comparator == FindComparator(comp_str, 1)
    IN IF IsNone(comparator) THEN "EQUALS" ELSE Get(comparator)

\* the values of a sequence of steps, or the exception of the first that raises
Collect(rs) ==
    IF \E i \in 1..Len(rs) : ~rs[i].ok
    THEN rs[CHOOSE i \in 1..Len(rs) : ~rs[i].ok /\ \A j \in 1..(i - 1) : rs[j].ok]
    ELSE Ok([ i \in 1..Len(rs) |-> rs[i].v ])

\* Condition(condition_type=RULE_REFERENCE, ...) on the validated members
RuleReferenceOf(rname, evalto) ==
    IF ~rname.ok THEN rname
    ELSE IF ~evalto.ok THEN evalto
    ELSE Ok(Condition("RULE_REFERENCE", None, None, None, None, TRUE, FALSE,
                      rname.v, evalto.v))

\* the Condition create_when_rule builds for an entry carrying 'rule'
BuildRuleReference(cond) ==
    RuleReferenceOf(ValidateOptStr(DictGet(cond, "rule", JNull)),
                    ValidateBool(DictGet(cond, "evaluates_to", JBool(TRUE))))

\* Condition(condition_type=PROPERTY_COMPARISON, ...) on the validated members
PropertyComparisonOf(comparator, prop, val, trim, isprop) ==
    IF ~prop.ok THEN prop
    ELSE IF ~val.ok THEN val
    ELSE IF ~trim.ok THEN trim
    ELSE IF ~isprop.ok THEN isprop
    ELSE Ok(Condition("PROPERTY_COMPARISON", prop.v, Some(comparator), None,
                      val.v, trim.v, isprop.v, None, TRUE))

\* the members of a property entry whose comparator has been determined;
\* apply_trim defaults to "comparator is no magnitude comparator"
PropertyMembers(cond, comparator) ==
    PropertyComparisonOf(
        comparator,
        ValidateOptStr(DictGet(cond, "property", JStr(""))),
        ValidateOptStr(DictGet(cond, "value", JNull)),
        ValidateBool(DictGet(cond, "apply_trim",
                             JBool(comparator \notin MagnitudeComparators))),
        ValidateBool(DictGet(cond, "is_property", JBool(FALSE))))

\* the Condition create_when_rule builds for an entry without 'rule'
BuildPropertyComparison(cond) == PropertyMembers(cond, ParseComparator(cond))

\* "rule" in cond followed by cond.get(...): one pass of the inner loop
BuildCondition(cond) ==
    CASE cond.t = "obj" ->
            IF HasKey(cond, "rule") THEN BuildRuleReference(cond)
            ELSE BuildPropertyComparison(cond)
      [] cond.t \in {"str", "list"} -> Raise("AttributeError")
      [] OTHER -> Raise("TypeError")

\* the inner loop of create_when_rule over the entries of one group
BuildConditions(items) ==
    Collect([ i \in 1..Len(items) |-> BuildCondition(items[i]) ])

\* a variant that reads the operator text without regard to letter case
ParseOperator_AnyCase(op_str) ==
    IF op_str.t = "str" /\ Upper(op_str.s) = "AND" THEN "AND" ELSE "OR"

\* LogicalOperator.AND if op_str == "AND" else LogicalOperator.OR
ParseOperator(op_str) ==
    IF op_str.t = "str" /\ op_str.s = "AND" THEN "AND" ELSE "OR"

\* ConditionGroup(conditions=conditions, operator=operator)
GroupOf(group_data, conditions) ==
    IF ~conditions.ok THEN conditions
    ELSE Ok(ConditionGroup(conditions.v,
                           ParseOperator(DictGet(group_data, "operator", JStr("AND")))))

\* the inner loop over what group_data.get("conditions", []) yields
GroupOver(group_data, entries) ==
    IF ~entries.ok THEN entries
    ELSE GroupOf(group_data, BuildConditions(entries.v))

\* one pass of the outer loop of create_when_rule
BuildGroup(group_data) ==
    IF group_data.t # "obj" THEN Raise("AttributeError")
    ELSE GroupOver(group_data,
                   Iterate(DictGet(group_data, "conditions", JList(<<>>))))

\* the outer loop of create_when_rule
BuildGroups(items) ==
    Collect([ i \in 1..Len(items) |-> BuildGroup(items[i]) ])

\* WhenRule(rule_name=..., condition_groups=..., group_operator=..., ...)
RuleOf(rule_name, applies_to, description, conditions_data, campaign_id, groups) ==
    IF ~groups.ok THEN groups
    ELSE Ok(WhenRule(rule_name, applies_to, description, groups.v,
                     ParseOperator(DictGet(conditions_data, "group_operator",
                                           JStr("AND"))),
                     campaign_id))

\* the outer loop over what conditions_data.get("groups", []) yields
RuleOver(rule_name, applies_to, description, conditions_data, campaign_id, entries) ==
    IF ~entries.ok THEN entries
    ELSE RuleOf(rule_name, applies_to, description, conditions_data, campaign_id,
                BuildGroups(entries.v))

\* the WhenRule that create_when_rule builds from the decoded value
BuildWhenRule(rule_name, applies_to, description, conditions_data, campaign_id) ==
    IF conditions_data.t # "obj" THEN Raise("AttributeError")
    ELSE RuleOver(rule_name, applies_to, description, conditions_data, campaign_id,
                  Iterate(DictGet(conditions_data, "groups", JList(<<>>))))

\* a variant that also fills a status field in the error dict
ErrorResult_WithStatus(doc) ==
    [ error |-> "Invalid JSON in conditions: " \o doc.e, status |-> "error" ]

\* the dict create_when_rule returns when json.loads fails
ErrorResult(doc) == [ error |-> "Invalid JSON in conditions: " \o doc.e ]

\* the dict create_when_rule returns for the rule it built
SuccessResult(when_rule) ==
    [ status |-> "success",
      rule_name |-> when_rule.rule_name,
      applies_to |-> when_rule.applies_to,
      campaign_id |-> when_rule.campaign_id,
      expression |-> to_expression(when_rule, TRUE),
      expression_simple |-> to_expression(when_rule, FALSE),
      xml |-> to_pega_xml(when_rule),
      api_payload |-> to_dict(when_rule) ]

\* how a call ends once the rule is built or an exception has escaped
Completion(when_rule) ==
    IF when_rule.ok
    THEN [outcome |-> "return", value |-> SuccessResult(when_rule.v)]
    ELSE [outcome |-> "raise", value |-> [exception |-> when_rule.exc]]

\* create_when_rule: what the call does, a returned dict or a raised exception
create_when_rule(rule_name, applies_to, description, conditions_json, campaign_id) ==
    IF ~json_loads(conditions_json).ok
    THEN [outcome |-> "return", value |-> ErrorResult(conditions_json)]
    ELSE Completion(BuildWhenRule(rule_name, applies_to, description,
                                  json_loads(conditions_json).v, campaign_id))

\* ---------------------------------------------------- validate_when_rule
\* s.count(ch) for a one-character ch
Count(s, ch) == Cardinality({ i \in 1..Len(s) : CharAt(s, i) = ch })

\* the ASCII characters str.strip() removes
Whitespace == {" ", "\t", "\n", "\r", "\f"}

\* s.rstrip() and s.lstrip()
RECURSIVE RStrip(_)
RStrip(s) ==
    IF Len(s) > 0 /\ CharAt(s, Len(s)) \in Whitespace
    THEN RStrip(SubSeq(s, 1, Len(s) - 1)) ELSE s

RECURSIVE LStrip(_)
LStrip(s) ==
    IF Len(s) > 0 /\ CharAt(s, 1) \in Whitespace
    THEN LStrip(SubSeq(s, 2, Len(s))) ELSE s

\* s.strip()
Strip(s) == LStrip(RStrip(s))

\* a variant that knows the symbols only
DanglingOperators_SymbolsOnly == {"&&", "||"}

\* the suffixes of the dangling-operator check
DanglingOperators == {"&&", "||", "AND", "OR"}

\* the ASCII characters \w matches
WordChars ==
    { "a", "b", "c", "d", "e", "f", "g", "h", "i", "j", "k", "l", "m", "n", "o",
      "p", "q", "r", "s", "t", "u", "v", "w", "x", "y", "z",
      "A", "B", "C", "D", "E", "F", "G", "H", "I", "J", "K", "L", "M", "N", "O",
      "P", "Q", "R", "S", "T", "U", "V", "W", "X", "Y", "Z", "_" } \cup Digits

\* re.search(r'@\w+\([^)]*\)', s) finds a match: an '@' at i, word characters
\* up to an '(' at j, and a ')' somewhere after it
FuncPatternFound(s) ==
    \E i \in 1..Len(s) : \E j \in (i + 2)..Len(s) :
        /\ CharAt(s, i) = "@"
        /\ \A m \in (i + 1)..(j - 1) : CharAt(s, m) \in WordChars
        /\ CharAt(s, j) = "("
        /\ \E k \in (j + 1)..Len(s) : CharAt(s, k) = ")"

\* errors.append(msg) when the check fires
ErrorIf(fires, msg) == IF fires THEN <<msg>> ELSE <<>>

\* a variant without the dangling-operator check
validate_when_rule_NoDanglingCheck(expression) ==
    LET errors ==
            ErrorIf(Count(expression, "(") # Count(expression, ")"),
                    "Unbalanced parentheses in expression")
            \o ErrorIf(Count(expression, "{") # Count(expression, "}"),
                       "Unbalanced braces in rule references")
            \o ErrorIf(Contains(expression, "@") /\ ~FuncPatternFound(expression),
                       "Invalid function syntax detected")
    IN [ valid |-> Len(errors) = 0,
         expression |-> expression,
         errors |-> IF Len(errors) > 0 THEN Some(errors) ELSE None ]

\* validate_when_rule
\* a validator that also follows the nesting: a closing mark that comes
\* before its opening mark is unbalanced too
validate_when_rule_NestingAware(expression) ==
    LET ClosedEarly(open, close) ==
            \E k \in 1..Len(expression) :
                Count(SubSeq(expression, 1, k), close)
                    > Count(SubSeq(expression, 1, k), open)
        errors ==
            ErrorIf(\/ Count(expression, "(") # Count(expression, ")")
                    \/ ClosedEarly("(", ")"),
                    "Unbalanced parentheses in expression")
            \o ErrorIf(\/ Count(expression, "{") # Count(expression, "}")
                       \/ ClosedEarly("{", "}"),
                       "Unbalanced braces in rule references")
            \o ErrorIf(\E w \in DanglingOperators : EndsWith(Strip(expression), w),
                       "Expression ends with a dangling logical operator")
            \o ErrorIf(Contains(expression, "@") /\ ~FuncPatternFound(expression),
                       "Invalid function syntax detected")
    IN [ valid |-> Len(errors) = 0,
         expression |-> expression,
         errors |-> IF Len(errors) > 0 THEN Some(errors) ELSE None ]

validate_when_rule(expression) ==
    LET errors ==
            ErrorIf(Count(expression, "(") # Count(expression, ")"),
                    "Unbalanced parentheses in expression")
            \o ErrorIf(Count(expression, "{") # Count(expression, "}"),
                       "Unbalanced braces in rule references")
            \o ErrorIf(\E w \in DanglingOperators : EndsWith(Strip(expression), w),
                       "Expression ends with a dangling logical operator")
            \o ErrorIf(Contains(expression, "@") /\ ~FuncPatternFound(expression),
                       "Invalid function syntax detected")
    IN [ valid |-> Len(errors) = 0,
         expression |-> expression,
         errors |-> IF Len(errors) > 0 THEN Some(errors) ELSE None ]

\* --------------------------------------------------- the domain registry
\* Common CAR (Customer) properties: the dict as its <<name, description>> items in order
CAR_PROPERTIES ==
    << <<"CustomerAge", "Customer's age in years">>,
       <<"CustomerSegment", "Customer segment (Mass, Mass Affluent, Premier, etc.)">>,
       <<"CustomerTenure", "Years as HSBC customer">>,
       <<"CustomerTier", "Customer tier level">>,
       <<"RelationshipManager", "Assigned RM indicator">>,
       <<"IsStaff", "HSBC staff indicator">>,
       <<"CountryOfResidence", "Customer's country of residence">>,
       <<"PreferredChannel", "Preferred communication channel">>,
       <<"TotalRelationshipBalance", "Total balance across all products">>,
       <<"AverageMonthlyBalance", "Average monthly balance">>,
       <<"CustomerLifetimeValue", "Calculated CLV score">>,
       <<"RevenueContribution", "Annual revenue contribution">>,
       <<"ProfitabilityScore", "Customer profitability score">>,
       <<"HasCurrentAccount", "Has current/checking account">>,
       <<"HasSavingsAccount", "Has savings account">>,
       <<"HasCreditCard", "Has credit card product">>,
       <<"HasMortgage", "Has mortgage product">>,
       <<"HasPersonalLoan", "Has personal loan">>,
       <<"HasInvestment", "Has investment products">>,
       <<"HasInsurance", "Has insurance products">>,
       <<"ProductCount", "Number of products held">>,
       <<"DigitalActive", "Active on digital channels">>,
       <<"MobileAppUser", "Uses mobile banking app">>,
       <<"LastLoginDays", "Days since last digital login">>,
       <<"TransactionFrequency", "Monthly transaction count">>,
       <<"RiskRating", "Customer risk rating">>,
       <<"KYCStatus", "KYC verification status">>,
       <<"AMLFlag", "AML flag indicator">> >>

\* Common AAR (Account) properties: the dict as its <<name, description>> items in order
AAR_PROPERTIES ==
    << <<"AccountType", "Type of account (Current, Savings, etc.)">>,
       <<"AccountStatus", "Account status (Active, Dormant, Closed)">>,
       <<"RoleType", "Primary or Secondary account holder">>,
       <<"AccountOpenDate", "Date account was opened">>,
       <<"AccountTenure", "Account age in months">>,
       <<"CurrentBalance", "Current account balance">>,
       <<"AvailableBalance", "Available balance">>,
       <<"AverageBalance3M", "3-month average balance">>,
       <<"AverageBalance6M", "6-month average balance">>,
       <<"AverageBalance12M", "12-month average balance">>,
       <<"MinBalanceMTD", "Minimum balance month-to-date">>,
       <<"MaxBalanceMTD", "Maximum balance month-to-date">>,
       <<"DebitCount", "Number of debit transactions">>,
       <<"CreditCount", "Number of credit transactions">>,
       <<"DebitAmount", "Total debit amount">>,
       <<"CreditAmount", "Total credit amount">>,
       <<"LastTransactionDate", "Date of last transaction">>,
       <<"CreditLimit", "Credit limit amount">>,
       <<"CreditUtilization", "Credit utilization percentage">>,
       <<"OutstandingBalance", "Outstanding credit balance">>,
       <<"MinimumPaymentDue", "Minimum payment due">>,
       <<"PaymentDueDate", "Payment due date">>,
       <<"DaysPastDue", "Days past due">> >>

\* Common MAR (Modeling) properties: the dict as its <<name, description>> items in order
MAR_PROPERTIES ==
    << <<"PropensityCreditCard", "Propensity to acquire credit card">>,
       <<"PropensityPersonalLoan", "Propensity to acquire personal loan">>,
       <<"PropensityMortgage", "Propensity to acquire mortgage">>,
       <<"PropensityInvestment", "Propensity to invest">>,
       <<"PropensityInsurance", "Propensity to buy insurance">>,
       <<"PropensityDeposit", "Propensity to increase deposits">>,
       <<"ChurnProbability", "Probability of customer churn">>,
       <<"RetentionScore", "Customer retention score">>,
       <<"AttritionRisk", "Attrition risk level (High/Medium/Low)">>,
       <<"ResponseProbability", "Likelihood to respond to offer">>,
       <<"ConversionProbability", "Likelihood to convert">>,
       <<"EngagementScore", "Customer engagement score">>,
       <<"BehavioralSegment", "Behavioral segmentation cluster">>,
       <<"ValueSegment", "Value-based segment">>,
       <<"LifestageSegment", "Lifestage segment">>,
       <<"NeedsCluster", "Needs-based cluster assignment">>,
       <<"NBARecommendation", "Next best action recommendation">>,
       <<"NBAScore", "NBA confidence score">>,
       <<"NBACategory", "NBA category (Acquire/Retain/Grow)">> >>

\* Customer Eligibility Properties: the dict as its <<name, description>> items in order
CUSTOMER_ELIGIBILITY_PROPERTIES ==
    << <<"AGE_NUM", "Customer's age in years">>,
       <<"CUST_CTRY_RELN_CDE8", "Customer country relation code (8-char)">>,
       <<"CUST_CTRY_RELN_CDE10", "Customer country relation code (10-char)">>,
       <<"CUST_SUPRS_CDE2", "Suppression code 2 (e.g., CPEXCL)">>,
       <<"CUST_SUPRS_CDE18", "Suppression code 18 (e.g., NOMK8K - no marketing)">>,
       <<"CUST_SUPRS_CDE36", "Suppression code 36 (e.g., F_SANT)">>,
       <<"Cust_Seg_Schem_Cde10", "Customer segment scheme code">>,
       <<"CUST_SEGMENT", "Customer segment (Mass, Premier, etc.)">>,
       <<"CUST_RISK_VAL", "Customer risk value (1-5 scale)">>,
       <<"KYC_STATUS", "KYC verification status">>,
       <<"AML_FLAG", "AML flag indicator">> >>

\* Investment & Bond Product Properties: the dict as its <<name, description>> items in order
INVESTMENT_PROPERTIES ==
    << <<"RPQ_STATUS", "RPQ validity status (Valid/Invalid/Expired)">>,
       <<"RPQ_RISK_LEVEL", "RPQ risk tolerance level (1-5)">>,
       <<"RPQ_EXPIRY_DT", "RPQ expiry date">>,
       <<"INV_ACCT_FLG", "Has investment account flag">>,
       <<"INV_ACCT_STATUS", "Investment account status">>,
       <<"BOND_HOLDING_CNT", "Number of bonds held">>,
       <<"BOND_CERT_DEP_MAT_NXT_2_DY_CNT", "Count of bonds maturing in next 2 days">>,
       <<"BOND_CERT_DEPST_LATE_MTUR_DT", "Latest bond maturity date">>,
       <<"BOND_TOTAL_VALUE", "Total bond holdings value">>,
       <<"STATIC_CODE_VALID", "Static code validity flag">> >>

\* a variant that lacks the investment table
TablePropsKeys_WithoutInvestment == {"CAR", "AAR", "MAR", "ELIGIBILITY"}

\* the keys of table_props in get_table_properties
TablePropsKeys == {"CAR", "AAR", "MAR", "ELIGIBILITY", "INVESTMENT"}

\* table_props[key]
TableProps(key) ==
    CASE key = "CAR" -> CAR_PROPERTIES
      [] key = "AAR" -> AAR_PROPERTIES
      [] key = "MAR" -> MAR_PROPERTIES
      [] key = "ELIGIBILITY" -> CUSTOMER_ELIGIBILITY_PROPERTIES
      [] key = "INVESTMENT" -> INVESTMENT_PROPERTIES

\* get_table_properties
get_table_properties(table_name) ==
    IF Upper(table_name) \notin TablePropsKeys
    THEN [ error |-> "Unknown table: " \o table_name
                     \o ". Valid: CAR, AAR, MAR, ELIGIBILITY, INVESTMENT" ]
    ELSE LET props == TableProps(Upper(table_name))
         IN [ table |-> Upper(table_name),
              properties |-> [ i \in 1..Len(props) |->
                                 [ name |-> props[i][1],
                                   description |-> props[i][2] ] ] ]

\* the keys of templates in get_campaign_rule_template
TemplateKeys == {"bond_maturity"}

\* templates["bond_maturity"], with the campaign id filled in
BondMaturityTemplate(campaign_id) ==
    [ description |-> "Bond maturity reinvestment campaign",
      universal_criteria |->
          << "Has valid investment account (INV_ACCT_FLG)",
             "Holds at least one bond (BOND_HOLDING_CNT > 0)" >>,
      suggested_rules |->
          << [ name |-> "OtherStandardExclusion_" \o campaign_id,
               type |-> "exclusion",
               description |-> "Standard exclusion rules for the campaign" ],
             [ name |-> "StandardExcl_Eligibility",
               type |-> "eligibility",
               description |->
                   "Standard eligibility exclusions (age, country, suppression)" ],
             [ name |-> "IsValidRPQ_" \o campaign_id,
               type |-> "targeting",
               description |->
                   "Check if customer has valid RPQ with risk level 1-5" ],
             [ name |-> "IsBondMaturityInNext2Days_" \o campaign_id,
               type |-> "targeting",
               description |-> "Check if bonds mature within 2 days" ] >>,
      groups |->
          << [ name |-> "Group 1: Ready to Reinvest",
               criteria |-> "Valid RPQ AND multiple bonds maturing" ],
             [ name |-> "Group 2: Needs Nurturing (Single)",
               criteria |-> "Invalid RPQ AND exactly 1 bond maturing" ],
             [ name |-> "Group 3: Needs Nurturing (Multiple)",
               criteria |-> "Invalid RPQ AND multiple bonds maturing" ] >>,
      campaign_id |-> campaign_id ]

\* get_campaign_rule_template
get_campaign_rule_template(campaign_id, campaign_type) ==
    IF campaign_type \notin TemplateKeys
    THEN [ error |-> "Unknown campaign type: " \o campaign_type
                     \o ". Available: ['bond_maturity']" ]
    ELSE BondMaturityTemplate(campaign_id)

\* the keyword lists of suggest_data_source
investment_keywords ==
    <<"bond", "rpq", "maturity", "investment account", "risk profile", "certificate">>
eligibility_keywords ==
    <<"exclusion", "eligibility", "suppression", "country code", "kyc", "compliance">>
account_keywords ==
    <<"account", "balance", "transaction", "credit limit", "utilization", "payment">>
model_keywords ==
    <<"propensity", "score", "probability", "likelihood", "segment", "cluster",
      "nba", "churn", "risk">>
customer_keywords ==
    <<"customer", "age", "tenure", "product", "relationship", "tier", "segment",
      "digital", "channel">>

\* any(kw in hint_lower for kw in keywords)
AnyKeyword(hint_lower, keywords) ==
    \E i \in 1..Len(keywords) : Contains(hint_lower, keywords[i])

\* the suggestion appended when a keyword list matches, in a list of its own
SuggestionIf(matches, table, reason, class) ==
    IF matches
    THEN << [ table |-> table, reason |-> reason, class |-> class ] >>
    ELSE <<>>

\* suggestions, as it stands before the customer-level check
SpecificSuggestions(hint_lower) ==
    SuggestionIf(AnyKeyword(hint_lower, investment_keywords), "INVESTMENT",
                 "Property relates to investment/bond products", "Bond Products")
    \o SuggestionIf(AnyKeyword(hint_lower, eligibility_keywords), "ELIGIBILITY",
                    "Property relates to customer eligibility/exclusions",
                    "Customer Eligibility")
    \o SuggestionIf(AnyKeyword(hint_lower, account_keywords), "AAR",
                    "Property relates to account-level data", "HSBC-Data-AAR")
    \o SuggestionIf(AnyKeyword(hint_lower, model_keywords), "MAR",
                    "Property relates to model outputs or propensity scores",
                    "HSBC-Data-MAR")

\* suggestions, after the customer-level check (the default)
Suggestions(hint_lower) ==
    SpecificSuggestions(hint_lower)
    \o SuggestionIf(AnyKeyword(hint_lower, customer_keywords)
                        \/ Len(SpecificSuggestions(hint_lower)) = 0,
                    "CAR", "Property relates to customer-level attributes",
                    "HSBC-Data-CAR")

\* suggest_data_source
suggest_data_source(property_hint) ==
    [ query |-> property_hint,
      suggestions |-> Suggestions(Lower(property_hint)),
      recommendation |->
          IF Len(Suggestions(Lower(property_hint))) > 0
          THEN Some(Head(Suggestions(Lower(property_hint))))
          ELSE None ]

\* EXAMPLE_WHEN_RULES
EXAMPLE_WHEN_RULES ==
    << [ input |-> "Standard exclusion for campaign 47817 - combine all standard exclusion rules",
         output |->
           WhenRule("OtherStandardExclusion_47817", "Customer Eligibility",
             "Standard exclusion rules combined with OR logic",
             << ConditionGroup(
                  << Condition("RULE_REFERENCE", None, None, None, None, TRUE, FALSE, Some("IsCustomersHoldingMPF"), TRUE),
                     Condition("RULE_REFERENCE", None, None, None, None, TRUE, FALSE, Some("IsMMOCustomers"), TRUE),
                     Condition("RULE_REFERENCE", None, None, None, None, TRUE, FALSE, Some("IsValidAccountAcclLevel"), TRUE),
                     Condition("RULE_REFERENCE", None, None, None, None, TRUE, FALSE, Some("IsValidAccountCusLevel"), TRUE),
                     Condition("RULE_REFERENCE", None, None, None, None, TRUE, FALSE, Some("NonCreditCampaigns"), TRUE),
                     Condition("RULE_REFERENCE", None, None, None, None, TRUE, FALSE, Some("IsHKID"), TRUE) >>,
                  "OR") >>,
             "AND", Some("47817")) ],
       [ input |-> "Standard eligibility exclusion - exclude customers from US, under 18, over 65, or with suppression codes",
         output |->
           WhenRule("StandardExcl_Eligibility", "Customer Eligibility",
             "Standard eligibility exclusions for age, country, suppression codes",
             << ConditionGroup(
                  << Condition("PROPERTY_COMPARISON", Some("CUST_CTRY_RELN_CDE10"), Some("EQUALS"), None, Some("USP"), TRUE, FALSE, None, TRUE),
                     Condition("PROPERTY_COMPARISON", Some("CUST_SUPRS_CDE36"), Some("EQUALS"), None, Some("F_SANT"), TRUE, FALSE, None, TRUE),
                     Condition("PROPERTY_COMPARISON", Some("AGE_NUM"), Some("LESS_THAN"), None, Some("18"), FALSE, FALSE, None, TRUE),
                     Condition("PROPERTY_COMPARISON", Some("CUST_SUPRS_CDE2"), Some("EQUALS"), None, Some("CPEXCL"), TRUE, FALSE, None, TRUE),
                     Condition("PROPERTY_COMPARISON", Some("AGE_NUM"), Some("GREATER_THAN"), None, Some("65"), FALSE, FALSE, None, TRUE) >>,
                  "OR") >>,
             "AND", None) ],
       [ input |-> "Exclude non-HK residents, check valid static code, risk value 1-5, and more than 1 bond maturing in 2 days",
         output |->
           WhenRule("ExclNonResidencyInHK", "Bond Products",
             "Non-HK resident exclusion with valid codes and bond maturity check",
             << ConditionGroup(
                  << Condition("PROPERTY_COMPARISON", Some("CUST_CTRY_RELN_CDE8"), Some("NOT_EQUALS"), None, Some("NRHK"), TRUE, FALSE, None, TRUE),
                     Condition("RULE_REFERENCE", None, None, None, None, TRUE, FALSE, Some("IsValidStaticCode"), TRUE),
                     Condition("RULE_REFERENCE", None, None, None, None, TRUE, FALSE, Some("IsCustRiskValueIn1to5"), TRUE),
                     Condition("PROPERTY_COMPARISON", Some("BOND_CERT_DEP_MAT_NXT_2_DY_CNT"), Some("GREATER_THAN"), None, Some("1"), FALSE, FALSE, None, TRUE) >>,
                  "AND") >>,
             "AND", None) ],
       [ input |-> "Check if customer has bonds maturing in the next 2 days",
         output |->
           WhenRule("IsBondMaturityInLast2Days", "Bond Products",
             "Bonds maturing within next 2 days",
             << ConditionGroup(
                  << Condition("PROPERTY_COMPARISON", Some("BOND_CERT_DEP_MAT_NXT_2_DY_CNT"), Some("GREATER_THAN"), None, Some("0"), FALSE, FALSE, None, TRUE) >>,
                  "AND") >>,
             "AND", None) ],
       [ input |-> "Check if customer is marketable (no NOMK8K suppression)",
         output |->
           WhenRule("IsMarketable", "Bond Products",
             "Customer can receive marketing communications",
             << ConditionGroup(
                  << Condition("PROPERTY_COMPARISON", Some("CUST_SUPRS_CDE18"), Some("NOT_EQUALS"), None, Some("NOMK8K"), TRUE, FALSE, None, TRUE) >>,
                  "AND") >>,
             "AND", None) ],
       [ input |-> "Valid RPQ with risk level between 1 and 5",
         output |->
           WhenRule("IsCustRiskValueIn1to5", "Customer Eligibility",
             "Customer has valid RPQ with risk tolerance 1-5",
             << ConditionGroup(
                  << Condition("PROPERTY_COMPARISON", Some("CUST_RISK_VAL"), Some("GREATER_THAN_OR_EQUAL"), None, Some("1"), FALSE, FALSE, None, TRUE),
                     Condition("PROPERTY_COMPARISON", Some("CUST_RISK_VAL"), Some("LESS_THAN_OR_EQUAL"), None, Some("5"), FALSE, FALSE, None, TRUE) >>,
                  "AND") >>,
             "AND", None) ],
       [ input |-> "Customers with investment account and holding at least one bond",
         output |->
           WhenRule("HasInvestmentWithBonds", "Bond Products",
             "Has investment account with bond holdings",
             << ConditionGroup(
                  << Condition("PROPERTY_COMPARISON", Some("INV_ACCT_FLG"), Some("IS_TRUE"), None, None, FALSE, FALSE, None, TRUE),
                     Condition("PROPERTY_COMPARISON", Some("BOND_HOLDING_CNT"), Some("GREATER_THAN"), None, Some("0"), FALSE, FALSE, None, TRUE) >>,
                  "AND") >>,
             "AND", None) ],
       [ input |-> "Group 1: Ready to Reinvest - Valid RPQ AND multiple bonds maturing",
         output |->
           WhenRule("IsReadyToReinvest_47817", "Bond Products",
             "Group 1: Valid RPQ with risk 1-5 AND >1 bond maturing in 2 days",
             << ConditionGroup(
                  << Condition("RULE_REFERENCE", None, None, None, None, TRUE, FALSE, Some("IsCustRiskValueIn1to5"), TRUE),
                     Condition("PROPERTY_COMPARISON", Some("BOND_CERT_DEP_MAT_NXT_2_DY_CNT"), Some("GREATER_THAN"), None, Some("1"), FALSE, FALSE, None, TRUE) >>,
                  "AND") >>,
             "AND", Some("47817")) ],
       [ input |-> "Group 2: Needs Nurturing Single - Invalid RPQ AND exactly 1 bond maturing",
         output |->
           WhenRule("IsNeedsNurturingSingle_47817", "Bond Products",
             "Group 2: Invalid/expired RPQ AND exactly 1 bond maturing",
             << ConditionGroup(
                  << Condition("RULE_REFERENCE", None, None, None, None, TRUE, FALSE, Some("IsCustRiskValueIn1to5"), FALSE),
                     Condition("PROPERTY_COMPARISON", Some("BOND_CERT_DEP_MAT_NXT_2_DY_CNT"), Some("EQUALS"), None, Some("1"), FALSE, FALSE, None, TRUE) >>,
                  "AND") >>,
             "AND", Some("47817")) ] >>

\* ALL_TABLES
ALL_TABLES ==
    << [ name |-> "CAR",
         full_name |-> "Customer Analytical Record",
         scope |-> "HSBC RBWM Customer",
         granularity |-> "Customer Level",
         keys |-> << "PseudoCustomerID" >>,
         variable_summary |-> "CAR_Summary",
         technical_criteria |-> Some("BK_SECTR = 'P' AND BK_ID = 4 AND CUST_IDC = 'Y'"),
         pega_class |-> Some("HSBC-Data-CAR") ],
       [ name |-> "AAR",
         full_name |-> "Account Analytical Record",
         scope |-> "HSBC RBWM Customer Related Primary & Secondary Account Records",
         granularity |-> "Customer + Account Level",
         keys |-> << "PseudoCustomerID", "PseudoAccountID", "RoleType" >>,
         variable_summary |-> "AAR_Summary",
         technical_criteria |-> None,
         pega_class |-> Some("HSBC-Data-AAR") ],
       [ name |-> "MAR",
         full_name |-> "Modeling Analytical Record",
         scope |-> "HSBC RBWM Customer Related Modeling Records",
         granularity |-> "Customer Level",
         keys |-> << "PseudoCustomerID" >>,
         variable_summary |-> "MAR_Summary",
         technical_criteria |-> None,
         pega_class |-> Some("HSBC-Data-MAR") ] >>

\* STANDARD_EXCLUSION_RULES, in the order of the dict
STANDARD_EXCLUSION_RULES ==
    << <<"IsCustomersHoldingMPF", "Customers holding MPF (Mandatory Provident Fund)">>,
       <<"IsMMOCustomers", "MMO (Mass Market Outbound) customers">>,
       <<"IsValidAccountAcclLevel", "Valid account at account level">>,
       <<"IsValidAccountCusLevel", "Valid account at customer level">>,
       <<"NonCreditCampaigns", "Non-credit campaign exclusion">>,
       <<"IsHKID", "Has Hong Kong ID">>,
       <<"IsTcTi", "TC/TI customer flag">>,
       <<"IsNRCCustomers", "Non-Resident Customer flag">>,
       <<"IsWelfarePayment", "Welfare payment recipients">>,
       <<"IsNationalityUSCAKR", "US/Canada/Korea nationality (FATCA)">>,
       <<"UnpreferredCustomerList", "On unpreferred customer list">>,
       <<"IsFullKYC", "Full KYC completed">>,
       <<"IsNRCCustomersTaiwan", "NRC customers - Taiwan">>,
       <<"IsHIPB", "HIPB (High Income Private Banking) customer">>,
       <<"MentalWellBeing_Ref", "Mental wellbeing reference check">> >>

\* get_table_info, over the module's list of tables
get_table_info(all_tables) ==
    [ tables |-> [ i \in 1..Len(all_tables) |->
                     [ name |-> all_tables[i].name,
                       full_name |-> all_tables[i].full_name,
                       scope |-> all_tables[i].scope,
                       granularity |-> all_tables[i].granularity,
                       keys |-> all_tables[i].keys,
                       variable_summary |-> all_tables[i].variable_summary,
                       pega_class |-> all_tables[i].pega_class,
                       technical_criteria |-> all_tables[i].technical_criteria ] ] ]

\* get_standard_exclusion_rules, over the module's dict of rule names
get_standard_exclusion_rules(rules) ==
    [ exclusion_rules |-> [ i \in 1..Len(rules) |->
                              [ rule_name |-> rules[i][1],
                                description |-> rules[i][2] ] ],
      usage |-> "Reference these rules using: {Rule <RuleName> evaluates to true}" ]

\* get_example_rules, over the module's list of examples
get_example_rules(examples) ==
    [ examples |-> [ i \in 1..Len(examples) |->
                       [ natural_language |-> examples[i].input,
                         expression |-> to_expression(examples[i].output,
                                                      DefaultUsePegaFunctions),
                         rule_name |-> examples[i].output.rule_name,
                         applies_to |-> examples[i].output.applies_to,
                         campaign_id |-> examples[i].output.campaign_id ] ] ]

\* the module-level tables, as they stand after import
StaticRegistry ==
    [ ALL_TABLES |-> ALL_TABLES,
      STANDARD_EXCLUSION_RULES |-> STANDARD_EXCLUSION_RULES,
      EXAMPLE_WHEN_RULES |-> EXAMPLE_WHEN_RULES,
      table_props |-> [ key \in TablePropsKeys |-> TableProps(key) ] ]

\* ------------------------------------------------------ enumerated inputs
\* all sequences over S of length at most n
SeqUpTo(S, n) == UNION { [1..k -> S] : k \in 0..n }

OptBool == {None, Some(JBool(TRUE)), Some(JBool(FALSE))}

\* compare values: plain numbers, text, the stripping rule's edge cases,
\* an already quoted literal and a property name
CompareValues ==
    {"18", "Premier", "1-2", "-5", "1.2.3", "", "-", ".", "\"HK\"", ".Limit"}

\* property comparisons as the tests and the example rules construct them
PropertyConditions ==
    { Condition("PROPERTY_COMPARISON", Some(".Age"), comp, None, val, trim, isprop,
                None, TRUE) :
        comp \in {None} \cup { Some(c) : c \in Comparator },
        val \in {None} \cup { Some(v) : v \in CompareValues },
        trim \in BOOLEAN, isprop \in BOOLEAN }

\* conditions that name their Pega function
FunctionConditions ==
    { Condition("FUNCTION_CALL", Some(".Age"), None, Some(f), val, trim, isprop,
                None, TRUE) :
        f \in PegaFunction,
        val \in {None, Some("18"), Some("Premier"), Some("\"HK\"")},
        trim \in BOOLEAN, isprop \in BOOLEAN }

\* rule references, with and without a rule name
RuleConditions ==
    { Condition("RULE_REFERENCE", None, None, None, None, TRUE, FALSE, rname, evalto) :
        rname \in {None, Some(""), Some("IsValidRPQ")}, evalto \in BOOLEAN }

\* the two conditions that the multi-condition rules are built from
StructConditions ==
    { Condition("PROPERTY_COMPARISON", Some(".Age"), Some("GREATER_THAN"), None,
                Some("18"), FALSE, FALSE, None, TRUE),
      Condition("RULE_REFERENCE", None, None, None, None, TRUE, FALSE,
                Some("IsValidRPQ"), TRUE) }

MakeRule(groups, gop) ==
    WhenRule("IsAdult", "Customer Eligibility", "Customer is an adult", groups, gop, None)

\* rules of one group holding one condition
SingleRules ==
    { MakeRule(<<ConditionGroup(<<c>>, "AND")>>, "AND") :
        c \in PropertyConditions \cup FunctionConditions \cup RuleConditions }

StructGroups ==
    { ConditionGroup(cs, o) : cs \in SeqUpTo(StructConditions, MaxConds),
                              o \in LogicalOperator }

\* the sequences of up to n elements of S that repeat their second element
LedSeqUpTo(S, n) ==
    { [ i \in 1..k |-> IF i = 1 THEN a ELSE b ] : a \in S, b \in S, k \in 0..n }

\* rules of up to MaxGroups groups of up to MaxConds conditions
StructRules ==
    { MakeRule(gs, gop) : gs \in LedSeqUpTo(StructGroups, MaxGroups),
                          gop \in LogicalOperator }

Rules == SingleRules \cup StructRules

\* groups of up to MaxConds conditions that repeat their second condition
XmlGroups ==
    { ConditionGroup(cs, o) : cs \in LedSeqUpTo(StructConditions, MaxConds),
                              o \in LogicalOperator }

\* rules of up to MaxGroups such groups that repeat their second group
LedRules ==
    { MakeRule(gs, gop) : gs \in LedSeqUpTo(XmlGroups, MaxGroups),
                          gop \in LogicalOperator }

\* the rules that are rendered as XML, as a dict and in the default dialect
XmlRules == SingleRules \cup LedRules

\* a dict member that is present (Some) or missing (None)
Field(k, ov) == IF IsNone(ov) THEN <<>> ELSE << <<k, Get(ov)>> >>

\* the 'comparator' member: missing, null, each comparator phrase, and texts
\* and values that are no comparator phrase
ComparatorFields ==
    {None, Some(JNull), Some(JStr("equals")), Some(JStr("IS EQUAL TO")),
     Some(JStr("")), Some(JNum(1))}
    \cup { Some(JStr(ComparatorValue(c))) : c \in Comparator }

\* the 'value' member: missing, null, text, and values that are not text
ValueFields ==
    {None, Some(JNull), Some(JNum(18)), Some(JList(<<>>))}
    \cup { Some(JStr(v)) : v \in {"18", "Premier", "1-2", "", "\"HK\"", ".Limit"} }

PropertyEntries ==
    { JObj(Field("property", Some(JStr(".Age"))) \o Field("comparator", comp)
           \o Field("value", val) \o Field("apply_trim", trim)
           \o Field("is_property", isprop)) :
        comp \in ComparatorFields, val \in ValueFields,
        trim \in OptBool, isprop \in OptBool }

RuleEntries ==
    { JObj(Field("rule", Some(rname)) \o Field("evaluates_to", evalto)) :
        rname \in {JStr("IsValidRPQ"), JStr(""), JNull, JList(<<>>)},
        evalto \in OptBool \cup {Some(JStr("maybe")), Some(JNull)} }

\* {"groups": [{"conditions": [entry], "operator": "AND"}], "group_operator": "AND"}
SingleEntryDoc(entry) ==
    Encoded(JObj(<< <<"groups", JList(<< JObj(<< <<"conditions", JList(<<entry>>)>>,
                                                <<"operator", JStr("AND")>> >>) >>)>>,
                    <<"group_operator", JStr("AND")>> >>))

\* the JSON entry that describes a condition of StructConditions
EncodeCondition(c) ==
    IF c.condition_type = "RULE_REFERENCE"
    THEN JObj(<< <<"rule", JStr(Get(c.referenced_rule))>>,
                 <<"evaluates_to", JBool(c.rule_evaluates_to)>> >>)
    ELSE JObj(<< <<"property", JStr(Get(c.property_reference))>>,
                 <<"comparator", JStr(ComparatorValue(Get(c.comparator)))>>,
                 <<"value", JStr(Get(c.compare_value))>> >>)

EncodeGroup(g) ==
    JObj(<< <<"conditions",
              JList([ i \in 1..Len(g.conditions) |-> EncodeCondition(g.conditions[i]) ])>>,
            <<"operator", JStr(g.operator)>> >>)

\* the conditions_json text that describes a rule
EncodeRule(r) ==
    Encoded(JObj(<< <<"groups",
                      JList([ i \in 1..Len(r.condition_groups) |->
                                EncodeGroup(r.condition_groups[i]) ])>>,
                    <<"group_operator", JStr(r.group_operator)>> >>))

\* the 'operator' and 'group_operator' members: missing, the two operator
\* names, other spellings, and values that are not text
OperatorFields ==
    { None, Some(JStr("AND")), Some(JStr("OR")), Some(JStr("and")), Some(JStr("And")),
      Some(JStr("&&")), Some(JStr("")), Some(JNull), Some(JNum(1)) }

\* {"groups": [{"conditions": [a, b], "operator": o}, {"conditions": [a]}],
\*  "group_operator": go}
OperatorDoc(o, go) ==
    LET a == JObj(<< <<"property", JStr(".Age")>>,
                     <<"comparator", JStr("is greater than")>>,
                     <<"value", JStr("18")>> >>)
        b == JObj(<< <<"rule", JStr("IsValidRPQ")>> >>)
    IN Encoded(JObj(<< <<"groups",
                         JList(<< JObj(<< <<"conditions", JList(<<a, b>>)>> >>
                                       \o Field("operator", o)),
                                  JObj(<< <<"conditions", JList(<<a>>)>> >>) >>)>> >>
                    \o Field("group_operator", go)))

OperatorDocs == { OperatorDoc(o, go) : o \in OperatorFields, go \in OperatorFields }

\* texts that json.loads rejects, with its message
UndecodableDocs ==
    { Undecodable("invalid json", "Expecting value: line 1 column 1 (char 0)"),
      Undecodable("", "Expecting value: line 1 column 1 (char 0)"),
      Undecodable("{\"groups\": [", "Expecting value: line 1 column 13 (char 12)"),
      Undecodable("{'groups': []}",
         "Expecting property name enclosed in double quotes: line 1 column 2 (char 1)") }

\* {"groups": groups}
GroupsDoc(groups) == Encoded(JObj(<< <<"groups", groups>> >>))

\* {"groups": [{"conditions": conditions}]}
ConditionsDoc(conditions) ==
    GroupsDoc(JList(<< JObj(<< <<"conditions", conditions>> >>) >>))

\* texts that decode to a value of another shape than the documented one
ShapeDocs ==
    { Encoded(JList(<<>>)), Encoded(JNum(5)), Encoded(JStr("groups")),
      Encoded(JNull), Encoded(JBool(TRUE)), Encoded(JObj(<<>>)),
      GroupsDoc(JNull), GroupsDoc(JNum(3)), GroupsDoc(JStr("ab")), GroupsDoc(JStr("")),
      GroupsDoc(JObj(<<>>)), GroupsDoc(JObj(<< <<"conditions", JList(<<>>)>> >>)),
      GroupsDoc(JList(<<JNum(1)>>)), GroupsDoc(JList(<<JStr("x")>>)),
      GroupsDoc(JList(<<JNull>>)), GroupsDoc(JList(<<JList(<<>>)>>)),
      GroupsDoc(JList(<<JObj(<<>>)>>)),
      ConditionsDoc(JNull), ConditionsDoc(JNum(3)), ConditionsDoc(JStr("rule")),
      ConditionsDoc(JObj(<< <<"rule", JStr("IsValidRPQ")>> >>)),
      ConditionsDoc(JList(<<JNum(1)>>)), ConditionsDoc(JList(<<JStr("rule")>>)),
      ConditionsDoc(JList(<<JStr("x")>>)), ConditionsDoc(JList(<<JNull>>)),
      ConditionsDoc(JList(<<JList(<<>>)>>)), ConditionsDoc(JList(<<JBool(TRUE)>>)),
      ConditionsDoc(JList(<<JObj(<<>>)>>)),
      ConditionsDoc(JList(<<JObj(<< <<"property", JList(<<>>)>> >>)>>)),
      ConditionsDoc(JList(<<JObj(<< <<"property", JStr(".Age")>>,
                                    <<"apply_trim", JStr("maybe")>> >>)>>)),
      ConditionsDoc(JList(<<JObj(<< <<"property", JStr(".Age")>>,
                                    <<"is_property", JNull>> >>)>>)) }

Documents ==
    UndecodableDocs \cup ShapeDocs
    \cup { SingleEntryDoc(e) : e \in PropertyEntries \cup RuleEntries }
    \cup { EncodeRule(r) : r \in LedRules }
    \cup OperatorDocs

CampaignIds == {None, Some("47817")}

\* table names: the keys in several letter cases, and names that are no key
TableNames ==
    { "CAR", "car", "Car", "cAr", "AAR", "aar", "MAR", "mar", "Mar",
      "ELIGIBILITY", "eligibility", "Eligibility", "INVESTMENT", "investment",
      "InVeStMeNt", "INVALID", "", "CA", "CARS", "car ", " CAR", "C.A.R",
      "customer", "ACCOUNT", "bond_maturity", "ELIGIBLE" }

\* campaign types and campaign ids
CampaignTypes ==
    { "bond_maturity", "credit_card", "personal_loan", "", "Bond_Maturity",
      "BOND_MATURITY", "bond maturity", "bond_maturity ", "CAR" }

TemplateCampaignIds == {"47817", "12345", ""}

\* expression texts: a body between a prefix and a suffix
ExpressionBodies ==
    { "", ".Age is greater than 18", "CustomerAge is greater than 18",
      "@isTrue(.Flag)", "@greaterThan(.Age, 18", "@ (x)", "@(x)", "@f()",
      "a@b_1(c)", "user@example.com", "{Rule IsValidRPQ evaluates to true}",
      "(.A is true && .B is true) || .C is blank" }

ExpressionPrefixes == {"", "(", ")", "{", "}", ")(", "}{", " "}

ExpressionSuffixes ==
    { "", " AND", " OR", " &&", " ||", " AND ", " OR\n", "\t", " and", "AND",
      " ANDY", ")", "}", " && x" }

Expressions ==
    { pre \o body \o suf :
        pre \in ExpressionPrefixes, body \in ExpressionBodies,
        suf \in ExpressionSuffixes }

\* the contexts of the recommend_data_source calls
PropertyHints ==
    { "customer age and segment", "customer tenure",
      "account balance and transactions", "propensity score for credit card",
      "churn risk and retention", "Customer Age", "product tier", "KYC status",
      "bond maturity date", "payment channel", "income", "" }

\* condition entries whose rendering ends in a property name, a quoted
\* value, a comparator phrase or a rule token
TailEntries ==
    { JObj(<< <<"property", JStr(".Age")>>, <<"comparator", JStr(comp)>>,
              <<"value", JStr(val)>> >> \o Field("is_property", isprop)) :
        comp \in {"is equal to", "is true"},
        val \in {".FLOOR", "BRAND", ".Limit"},
        isprop \in {None, Some(JBool(TRUE))} }
    \cup { JObj(<< <<"rule", rname>> >>) : rname \in {JStr(""), JNull, JStr("IsValidRPQ")} }

\* texts that hold such an entry alone, as a group of its own after another
\* group, and as the last condition of a group of two
TailDocs ==
    LET a == JObj(<< <<"property", JStr(".Age")>>,
                     <<"comparator", JStr("is greater than")>>,
                     <<"value", JStr("18")>> >>)
        OneGroup(entries) == JObj(<< <<"conditions", JList(entries)>> >>)
    IN { GroupsDoc(JList(<<OneGroup(<<e>>)>>)) : e \in TailEntries }
       \cup { GroupsDoc(JList(<<OneGroup(<<a>>), OneGroup(<<e>>)>>)) : e \in TailEntries }
       \cup { GroupsDoc(JList(<<OneGroup(<<a, e>>)>>)) : e \in TailEntries }

\* ------------------------------------------------------------------ state
VARIABLES
    pc,       \* "idle": no call in progress; "done": a call has finished
    op,       \* the operation of the finished call
    args,     \* its arguments
    outcome,  \* "return" or "raise"
    result,   \* the returned value, or the raised exception
    earlier,  \* history: an earlier finished call kept for comparison, or <<>>
    registry, \* the module-level tables and example rules
    receiver  \* the WhenRule a finished rendering call was made on, as the
              \* call left it; None after any other call

vars == <<pc, op, args, outcome, result, earlier, registry, receiver>>

Init ==
    /\ pc = "idle"
    /\ op = "none"
    /\ args = <<>>
    /\ outcome = "none"
    /\ result = <<>>
    /\ earlier = <<>>
    /\ registry = StaticRegistry
    /\ receiver = None

\* a variant that numbers the rules it builds after the first one
CallCreateWhenRule_Numbering(docs) ==
    /\ pc = "idle"
    /\ \E doc \in docs, cid \in CampaignIds :
         /\ pc' = "done"
         /\ op' = "create_when_rule"
         /\ args' = [ rule_name |-> "IsAdult",
                      applies_to |-> "Customer Eligibility",
                      description |-> "Customer is an adult",
                      conditions_json |-> doc,
                      campaign_id |-> cid ]
         /\ \E r \in { create_when_rule(IF Len(earlier) = 0 THEN "IsAdult"
                                         ELSE "IsAdult_2",
                                         "Customer Eligibility",
                                         "Customer is an adult", doc, cid) } :
              /\ outcome' = r.outcome
              /\ result' = r.value
    /\ receiver' = None
    /\ UNCHANGED <<earlier, registry>>

\* a tool call create_when_rule(rule_name, applies_to, description,
\* conditions_json, campaign_id) on a text of docs
CallCreateWhenRule(docs) ==
    /\ pc = "idle"
    /\ \E doc \in docs, cid \in CampaignIds :
         /\ pc' = "done"
         /\ op' = "create_when_rule"
         /\ args' = [ rule_name |-> "IsAdult",
                      applies_to |-> "Customer Eligibility",
                      description |-> "Customer is an adult",
                      conditions_json |-> doc,
                      campaign_id |-> cid ]
         /\ \E r \in { create_when_rule("IsAdult", "Customer Eligibility",
                                         "Customer is an adult", doc, cid) } :
              /\ outcome' = r.outcome
              /\ result' = r.value
    /\ receiver' = None
    /\ UNCHANGED <<earlier, registry>>

\* a call rule.to_expression(use_pega_functions) on a WhenRule of rules
CallToExpression(rules) ==
    /\ pc = "idle"
    /\ \E rule \in rules, use \in BOOLEAN :
         /\ pc' = "done"
         /\ op' = "to_expression"
         /\ args' = [ rule |-> rule, use_pega_functions |-> use ]
         /\ outcome' = "return"
         /\ result' = to_expression(rule, use)
         /\ receiver' = Some(rule)
    /\ UNCHANGED <<earlier, registry>>

\* a call rule.to_expression() that leaves use_pega_functions to its default
CallToExpressionDefault(rules) ==
    /\ pc = "idle"
    /\ \E rule \in rules :
         /\ pc' = "done"
         /\ op' = "to_expression"
         /\ args' = [ rule |-> rule,
                      use_pega_functions |-> DefaultUsePegaFunctions,
                      by_default |-> TRUE ]
         /\ outcome' = "return"
         /\ result' = to_expression(rule, DefaultUsePegaFunctions)
         /\ receiver' = Some(rule)
    /\ UNCHANGED <<earlier, registry>>

\* a call rule.to_dict() on a WhenRule of rules
CallToDict(rules) ==
    /\ pc = "idle"
    /\ \E rule \in rules :
         /\ pc' = "done"
         /\ op' = "to_dict"
         /\ args' = [ rule |-> rule ]
         /\ outcome' = "return"
         /\ result' = to_dict(rule)
         /\ receiver' = Some(rule)
    /\ UNCHANGED <<earlier, registry>>

\* a tool call validate_when_rule(expression) on a text of expressions
CallValidateWhenRule(expressions) ==
    /\ pc = "idle"
    /\ \E expression \in expressions :
         /\ pc' = "done"
         /\ op' = "validate_when_rule"
         /\ args' = [ expression |-> expression ]
         /\ outcome' = "return"
         /\ result' = validate_when_rule(expression)
    /\ receiver' = None
    /\ UNCHANGED <<earlier, registry>>

\* a lookup get_table_properties(table_name) of a name of names
CallGetTableProperties(names) ==
    /\ pc = "idle"
    /\ \E table_name \in names :
         /\ pc' = "done"
         /\ op' = "get_table_properties"
         /\ args' = [ table_name |-> table_name ]
         /\ outcome' = "return"
         /\ result' = get_table_properties(table_name)
    /\ receiver' = None
    /\ UNCHANGED <<earlier, registry>>

\* a variant that builds its templates once and hands out the first ones
CallGetCampaignRuleTemplate_Cached(ids, types) ==
    /\ pc = "idle"
    /\ \E campaign_id \in ids, campaign_type \in types :
         /\ pc' = "done"
         /\ op' = "get_campaign_rule_template"
         /\ args' = [ campaign_id |-> campaign_id, campaign_type |-> campaign_type ]
         /\ outcome' = "return"
         /\ result' = get_campaign_rule_template(
                          IF Len(earlier) > 0
                             /\ earlier[1].op = "get_campaign_rule_template"
                          THEN earlier[1].args.campaign_id ELSE campaign_id,
                          campaign_type)
    /\ receiver' = None
    /\ UNCHANGED <<earlier, registry>>

\* a lookup get_campaign_rule_template(campaign_id, campaign_type)
CallGetCampaignRuleTemplate(ids, types) ==
    /\ pc = "idle"
    /\ \E campaign_id \in ids, campaign_type \in types :
         /\ pc' = "done"
         /\ op' = "get_campaign_rule_template"
         /\ args' = [ campaign_id |-> campaign_id, campaign_type |-> campaign_type ]
         /\ outcome' = "return"
         /\ result' = get_campaign_rule_template(campaign_id, campaign_type)
    /\ receiver' = None
    /\ UNCHANGED <<earlier, registry>>

\* a tool call recommend_data_source(context) on a text of hints
CallRecommendDataSource(hints) ==
    /\ pc = "idle"
    /\ \E context \in hints :
         /\ pc' = "done"
         /\ op' = "suggest_data_source"
         /\ args' = [ property_hint |-> context ]
         /\ outcome' = "return"
         /\ result' = suggest_data_source(context)
    /\ receiver' = None
    /\ UNCHANGED <<earlier, registry>>

\* a call rule.to_pega_xml() on a WhenRule of rules
CallToPegaXml(rules) ==
    /\ pc = "idle"
    /\ \E rule \in rules :
         /\ pc' = "done"
         /\ op' = "to_pega_xml"
         /\ args' = [ rule |-> rule ]
         /\ outcome' = "return"
         /\ result' = to_pega_xml(rule)
         /\ receiver' = Some(rule)
    /\ UNCHANGED <<earlier, registry>>

\* a tool call get_example_rules()
GetExampleRules ==
    /\ pc = "idle"
    /\ pc' = "done"
    /\ op' = "get_example_rules"
    /\ args' = <<>>
    /\ outcome' = "return"
    /\ result' = get_example_rules(registry.EXAMPLE_WHEN_RULES)
    /\ receiver' = None
    /\ UNCHANGED <<earlier, registry>>

\* a tool call get_data_sources()
GetDataSources ==
    /\ pc = "idle"
    /\ pc' = "done"
    /\ op' = "get_table_info"
    /\ args' = <<>>
    /\ outcome' = "return"
    /\ result' = get_table_info(registry.ALL_TABLES)
    /\ receiver' = None
    /\ UNCHANGED <<earlier, registry>>

\* a tool call get_exclusion_rules()
GetExclusionRules ==
    /\ pc = "idle"
    /\ pc' = "done"
    /\ op' = "get_standard_exclusion_rules"
    /\ args' = <<>>
    /\ outcome' = "return"
    /\ result' = get_standard_exclusion_rules(registry.STANDARD_EXCLUSION_RULES)
    /\ receiver' = None
    /\ UNCHANGED <<earlier, registry>>

\* the calls over all enumerated inputs
CreateWhenRule == CallCreateWhenRule(Documents)
ToExpression == CallToExpression(Rules)
ToExpressionDefault == CallToExpressionDefault(XmlRules)
ToDict == CallToDict(XmlRules)
ToPegaXml == CallToPegaXml(XmlRules)
ValidateWhenRule == CallValidateWhenRule(Expressions)
GetTableProperties == CallGetTableProperties(TableNames)
GetCampaignRuleTemplate == CallGetCampaignRuleTemplate(TemplateCampaignIds, CampaignTypes)
RecommendDataSource == CallRecommendDataSource(PropertyHints)

\* the caller takes the result; nothing of the call is kept
Discard ==
    /\ pc = "done"
    /\ pc' = "idle"
    /\ op' = "none"
    /\ args' = <<>>
    /\ outcome' = "none"
    /\ result' = <<>>
    /\ receiver' = None
    /\ UNCHANGED <<earlier, registry>>

Next ==
    \/ CreateWhenRule
    \/ ToExpression
    \/ ToExpressionDefault
    \/ ToDict
    \/ ToPegaXml
    \/ ValidateWhenRule
    \/ GetTableProperties
    \/ GetCampaignRuleTemplate
    \/ RecommendDataSource
    \/ GetExampleRules
    \/ GetDataSources
    \/ GetExclusionRules
    \/ Discard

Spec == Init /\ [][Next]_vars

\* ------------------------------------------------- sessions with history
\* The same calls over a few inputs, with one finished call kept in earlier
\* so that a later call with the same arguments can be compared with it.
SessionDocuments ==
    { Undecodable("invalid json", "Expecting value: line 1 column 1 (char 0)"),
      Encoded(JList(<<>>)),
      EncodeRule(MakeRule(<<>>, "AND")),
      SingleEntryDoc(JObj(<< <<"property", JStr(".Age")>>,
                             <<"comparator", JStr("is greater than")>>,
                             <<"value", JStr("18")>> >>)),
      SingleEntryDoc(JObj(<< <<"rule", JStr("IsValidRPQ")>>,
                             <<"evaluates_to", JBool(FALSE)>> >>)) }
    \cup { EncodeRule(MakeRule(<<ConditionGroup(cs, "OR"), ConditionGroup(cs, "AND")>>,
                               "OR")) :
             cs \in [1..MaxGroups -> StructConditions] }
    \cup TailDocs

SessionRules ==
    { MakeRule(<<>>, "AND") }
    \cup { MakeRule(<<ConditionGroup(cs, "AND")>>, "OR") :
             cs \in [1..MaxGroups -> StructConditions] }

SessionExpressions ==
    { ".Age is greater than 18", "(.Age is greater than 18",
      "@isTrue(.Flag) &&", "@isTrue" }

SessionTableNames == {"CAR", "mar", "INVALID"}

SessionCreateWhenRule == CallCreateWhenRule(SessionDocuments)
SessionToExpression == CallToExpression(SessionRules)
SessionToExpressionDefault == CallToExpressionDefault(SessionRules)
SessionToDict == CallToDict(SessionRules)
SessionValidateWhenRule == CallValidateWhenRule(SessionExpressions)
SessionGetTableProperties == CallGetTableProperties(SessionTableNames)
SessionGetCampaignRuleTemplate ==
    CallGetCampaignRuleTemplate(TemplateCampaignIds, {"bond_maturity", "credit_card"})
SessionToPegaXml == CallToPegaXml(SessionRules)
SessionRecommendDataSource ==
    CallRecommendDataSource({"customer age and segment", "account balance"})

\* a tool call validate_when_rule on one of the two expressions that the
\* create_when_rule call kept in earlier returned
SessionValidateCreated ==
    /\ Len(earlier) = 1
    /\ earlier[1].op = "create_when_rule"
    /\ earlier[1].outcome = "return"
    /\ "status" \in DOMAIN earlier[1].result
    /\ CallValidateWhenRule({ earlier[1].result.expression,
                              earlier[1].result.expression_simple })

\* the caller takes the result, and the call is kept for comparison
Remember ==
    /\ pc = "done"
    /\ earlier' = << [ op |-> op, args |-> args, outcome |-> outcome,
                       result |-> result ] >>
    /\ pc' = "idle"
    /\ op' = "none"
    /\ args' = <<>>
    /\ outcome' = "none"
    /\ result' = <<>>
    /\ receiver' = None
    /\ UNCHANGED registry

SessionNext ==
    \/ SessionCreateWhenRule
    \/ SessionToExpression
    \/ SessionToExpressionDefault
    \/ SessionToDict
    \/ SessionValidateWhenRule
    \/ SessionGetTableProperties
    \/ SessionGetCampaignRuleTemplate
    \/ SessionToPegaXml
    \/ SessionRecommendDataSource
    \/ SessionValidateCreated
    \/ GetExampleRules
    \/ GetDataSources
    \/ GetExclusionRules
    \/ Remember
    \/ Discard

SessionSpec == Init /\ [][SessionNext]_vars

\* -------------------------------------------- vocabulary of the properties
\* a create_when_rule call has finished
Created == pc = "done" /\ op = "create_when_rule"

\* a to_expression call has finished
Rendered == pc = "done" /\ op = "to_expression"

\* the chain t1 sep t2 sep ... tn of the first n >= 1 tokens
RECURSIVE Infix(_, _, _)
Infix(toks, sep, n) ==
    IF n = 1 THEN toks[1] ELSE Infix(toks, sep, n - 1) \o sep \o toks[n]

\* ' && ' for AND, ' || ' for OR
Separator(operator) == IF operator = "AND" THEN " && " ELSE " || "

\* the rendered rule has one group holding one condition
OneCondition(rule) ==
    /\ Len(rule.condition_groups) = 1
    /\ Len(rule.condition_groups[1].conditions) = 1

TheCondition(rule) == rule.condition_groups[1].conditions[1]

\* a property comparison rendered from its comparator
IsPropertyComparison(c) ==
    c.condition_type = "PROPERTY_COMPARISON" /\ IsNone(c.pega_function)

\* the 15 comparator phrases
ComparatorPhrases ==
    { "is equal to", "is not equal to", "is greater than",
      "is greater than or equal to", "is less than", "is less than or equal to",
      "is true", "is false", "is blank", "is not blank", "contains",
      "starts with", "ends with", "is in", "is not in" }

\* member k of a dict is missing, null or text / missing or a boolean
OptText(d, k) == ~HasKey(d, k) \/ DictGet(d, k, JNull).t \in {"str", "null"}
OptFlag(d, k) == ~HasKey(d, k) \/ DictGet(d, k, JNull).t = "bool"

\* a condition entry of the documented shape, whatever its comparator
EntryShaped(e) ==
    /\ e.t = "obj"
    /\ IF HasKey(e, "rule")
       THEN OptText(e, "rule") /\ OptFlag(e, "evaluates_to")
       ELSE /\ OptText(e, "property") /\ OptText(e, "value")
            /\ OptFlag(e, "apply_trim") /\ OptFlag(e, "is_property")

GroupShaped(g) ==
    /\ g.t = "obj"
    /\ HasKey(g, "conditions") => /\ DictGet(g, "conditions", JNull).t = "list"
                                  /\ \A i \in 1..Len(DictGet(g, "conditions", JNull).items) :
                                       EntryShaped(DictGet(g, "conditions", JNull).items[i])

\* a conditions_json text that decodes to the documented shape
DocShaped(doc) ==
    /\ doc.decodable
    /\ doc.value.t = "obj"
    /\ HasKey(doc.value, "groups") =>
          /\ DictGet(doc.value, "groups", JNull).t = "list"
          /\ \A i \in 1..Len(DictGet(doc.value, "groups", JNull).items) :
               GroupShaped(DictGet(doc.value, "groups", JNull).items[i])

\* the condition entries of a shaped text, in group order then entry order
DocEntries(doc) ==
    LET groups == DictGet(doc.value, "groups", JList(<<>>)).items
    IN Flatten([ g \in 1..Len(groups) |->
                   DictGet(groups[g], "conditions", JList(<<>>)).items ])

\* a property entry whose comparator is missing, null or no comparator phrase
UnknownComparator(e) ==
    /\ ~HasKey(e, "rule")
    /\ \/ ~HasKey(e, "comparator")
       \/ DictGet(e, "comparator", JNull).t # "str"
       \/ DictGet(e, "comparator", JNull).s \notin ComparatorPhrases

\* the text of the 'property' member of an entry
EntryProperty(e) ==
    IF HasKey(e, "property") /\ DictGet(e, "property", JNull).t = "str"
    THEN DictGet(e, "property", JNull).s ELSE ""

\* ------------------------------------------------------------------ C1
\* C1: for every conditions_json, create_when_rule returns a structured
\* result (a success or an error with a message) and never raises.
C1_NeverRaises ==
    Created =>
        /\ outcome = "return"
        /\ \/ DOMAIN result = {"error"}
           \/ ("status" \in DOMAIN result /\ result.status = "success")

\* ------------------------------------------------------------------ C2
\* C2: when conditions_json is not decodable as JSON, create_when_rule
\* returns a result with a non-empty error message and no success field.
C2_UndecodableGivesErrorOnly ==
    (Created /\ ~args.conditions_json.decodable) =>
        /\ outcome = "return"
        /\ DOMAIN result = {"error"}
        /\ Len(result.error) > 0

C2_Witness ==
    /\ Created
    /\ ~args.conditions_json.decodable
    /\ args.conditions_json.text = "invalid json"
    /\ outcome = "return"
    /\ result.error
         = "Invalid JSON in conditions: Expecting value: line 1 column 1 (char 0)"

\* ------------------------------------------------------------------ C3
\* C3: a property entry whose comparator is missing, null or no comparator
\* phrase is built with EQUALS, and the call on a text of the documented
\* shape returns a success result, never an error.
C3_UnknownComparatorIsEquals ==
    (Created /\ DocShaped(args.conditions_json)) =>
        LET entries == DocEntries(args.conditions_json)
        IN /\ outcome = "return"
           /\ "error" \notin DOMAIN result
           /\ result.status = "success"
           /\ Len(result.api_payload.pyConditions) = Len(entries)
           /\ \A k \in 1..Len(entries) :
                UnknownComparator(entries[k]) =>
                    /\ result.api_payload.pyConditions[k].pyConditionType = "property"
                    /\ result.api_payload.pyConditions[k].pyComparator = "is equal to"
           /\ (Len(entries) = 1 /\ UnknownComparator(entries[1])) =>
                    /\ StartsWith(result.expression, "@equalsIgnoreCase(")
                    /\ StartsWith(result.expression_simple,
                                  EntryProperty(entries[1]) \o " is equal to ")

C3_Witness ==
    /\ Created
    /\ DocShaped(args.conditions_json)
    /\ Len(DocEntries(args.conditions_json)) = 1
    /\ HasKey(DocEntries(args.conditions_json)[1], "comparator")
    /\ DictGet(DocEntries(args.conditions_json)[1], "comparator", JNull) = JStr("equals")
    /\ DictGet(DocEntries(args.conditions_json)[1], "value", JNull) = JStr("Premier")
    /\ outcome = "return"
    /\ result.status = "success"
    /\ result.expression = "@equalsIgnoreCase(@trim(.Age), \"Premier\")"
    /\ result.api_payload.pyConditions[1].pyComparator = "is equal to"

GroupTokens(rule, use) ==
    [ g \in 1..Len(rule.condition_groups) |->
        LET group == rule.condition_groups[g]
        IN GroupExpression([ c \in 1..Len(group.conditions) |->
                               _condition_to_expr(group.conditions[c], use) ],
                           OpSymbol(group.operator)) ]

C6_ZeroGroupsEmpty ==
    /\ (Rendered /\ Len(args.rule.condition_groups) = 0) => result = ""
    /\ \A gop \in LogicalOperator :
         (Created /\ args.conditions_json = EncodeRule(MakeRule(<<>>, gop))) =>
             /\ outcome = "return"
             /\ result.expression = ""
             /\ result.expression_simple = ""

C6_Witness ==
    /\ Rendered
    /\ Len(args.rule.condition_groups) = 0
    /\ args.rule.group_operator = "OR"
    /\ ~args.use_pega_functions
    /\ result = ""

\* ------------------------------------------------------------------ C7
\* the token '{Rule <name> evaluates to true|false}'
C7_Token(name, expected) ==
    "{Rule " \o name \o " evaluates to " \o (IF expected THEN "true" ELSE "false") \o "}"

\* C7: every rule-reference condition renders to the same token
\* '{Rule <name> evaluates to true|false}' in both dialects, also every
\* rule reference that create_when_rule builds from an entry with 'rule'.
C7_RuleReferenceToken ==
    /\ (Rendered /\ OneCondition(args.rule)
                 /\ TheCondition(args.rule).condition_type = "RULE_REFERENCE") =>
           result = C7_Token(OrEmpty(TheCondition(args.rule).referenced_rule),
                             TheCondition(args.rule).rule_evaluates_to)
    /\ (Created /\ DocShaped(args.conditions_json)
                /\ Len(DocEntries(args.conditions_json)) = 1
                /\ HasKey(DocEntries(args.conditions_json)[1], "rule")) =>
           LET built == result.api_payload.pyConditions[1]
               tok == C7_Token(OrEmpty(built.pyRuleName), built.pyEvaluatesTo)
           IN result.expression = tok /\ result.expression_simple = tok

\* ------------------------------------------------------------------ C8
\* the function the comparator table fixes for a mapped comparator
C8_Function(comp) ==
    CASE comp = "EQUALS" -> "@equalsIgnoreCase"
      [] comp = "NOT_EQUALS" -> "@notEqualsIgnoreCase"
      [] comp = "GREATER_THAN" -> "@greaterThan"
      [] comp = "GREATER_THAN_OR_EQUAL" -> "@greaterThanOrEqual"
      [] comp = "LESS_THAN" -> "@lessThan"
      [] comp = "LESS_THAN_OR_EQUAL" -> "@lessThanOrEqual"
      [] comp = "IS_TRUE" -> "@isTrue"
      [] comp = "IS_FALSE" -> "@isFalse"
      [] comp = "IS_BLANK" -> "@isBlank"
      [] comp = "IS_NOT_BLANK" -> "@isNotBlank"
      [] comp = "CONTAINS" -> "@contains"
      [] comp = "STARTS_WITH" -> "@startsWith"
      [] comp = "ENDS_WITH" -> "@endsWith"

C8_Mapped ==
    { "EQUALS", "NOT_EQUALS", "GREATER_THAN", "GREATER_THAN_OR_EQUAL", "LESS_THAN",
      "LESS_THAN_OR_EQUAL", "IS_TRUE", "IS_FALSE", "IS_BLANK", "IS_NOT_BLANK",
      "CONTAINS", "STARTS_WITH", "ENDS_WITH" }

C8_Unary == {"IS_TRUE", "IS_FALSE", "IS_BLANK", "IS_NOT_BLANK"}

C8_Magnitude ==
    {"GREATER_THAN", "GREATER_THAN_OR_EQUAL", "LESS_THAN", "LESS_THAN_OR_EQUAL"}

\* a function-dialect rendering of one property comparison with a mapped
\* comparator has finished
MappedRendered ==
    /\ Rendered
    /\ args.use_pega_functions
    /\ OneCondition(args.rule)
    /\ IsPropertyComparison(TheCondition(args.rule))
    /\ ~IsNone(TheCondition(args.rule).comparator)
    /\ Get(TheCondition(args.rule).comparator) \in C8_Mapped

\* C8: in the function dialect a property comparison with one of the 13
\* mapped comparators becomes a call to the function the table fixes for it,
\* with the two arguments 'property, value' for the nine binary comparators
\* (and the one argument 'property' for the four unary ones).
C8_FunctionTable ==
    MappedRendered =>
        LET c == TheCondition(args.rule)
            comp == Get(c.comparator)
            prop == OrEmpty(c.property_reference)
            val == OrEmpty(c.compare_value)
            props == {prop, "@trim(" \o prop \o ")"}
            vals == {val, "\"" \o val \o "\""}
        IN IF comp \in C8_Unary
           THEN \E p \in props : result = C8_Function(comp) \o "(" \o p \o ")"
           ELSE \E p \in props, v \in vals :
                    result = C8_Function(comp) \o "(" \o p \o ", " \o v \o ")"

C8_Witness ==
    /\ MappedRendered
    /\ Get(TheCondition(args.rule).comparator) = "STARTS_WITH"
    /\ result = "@startsWith(@trim(.Age), \"Premier\")"

\* ------------------------------------------------------------------ C9
\* C9: in the function dialect, for a property comparison whose comparator
\* has a function mapping, the property argument is wrapped in @trim(...)
\* exactly when apply_trim is true and the comparator is not one of the four
\* magnitude comparators; for those four it is never wrapped.  The same rule
\* holds, by its function, for a condition that names its Pega function.
C9_TrimRule ==
    /\ MappedRendered =>
        LET c == TheCondition(args.rule)
            comp == Get(c.comparator)
            prop == OrEmpty(c.property_reference)
            open == C8_Function(comp) \o "("
            wrapped == c.apply_trim /\ comp \notin C8_Magnitude
            arg == IF wrapped THEN "@trim(" \o prop \o ")" ELSE prop
        IN /\ StartsWith(result, open \o arg)
           /\ CharAt(result, Len(open \o arg) + 1) \in {",", ")"}
           /\ StartsWith(result, open \o "@trim(") <=> wrapped
    /\ (Rendered /\ args.use_pega_functions /\ OneCondition(args.rule)
                 /\ TheCondition(args.rule).condition_type = "FUNCTION_CALL") =>
        LET c == TheCondition(args.rule)
            func == Get(c.pega_function)
            open == PegaFunctionValue(func) \o "("
            wrapped == c.apply_trim /\ func \notin C8_Magnitude
        IN StartsWith(result, open \o "@trim(") <=> wrapped

C9_Witness ==
    /\ MappedRendered
    /\ TheCondition(args.rule).apply_trim
    /\ Get(TheCondition(args.rule).comparator) = "LESS_THAN_OR_EQUAL"
    /\ result = "@lessThanOrEqual(.Age, 18)"

\* ------------------------------------------------------------------ C10
\* C10: in the function dialect the compare value of a binary property
\* comparison is wrapped in double quotes exactly when it is non-numeric by
\* the stripping rule, does not start with a double quote and is not a
\* property reference; otherwise it is emitted unchanged, for every binary
\* comparator.
C10_QuoteRule ==
    (MappedRendered /\ Get(TheCondition(args.rule).comparator) \notin C8_Unary
                    /\ ~IsNone(TheCondition(args.rule).compare_value)) =>
        LET c == TheCondition(args.rule)
            val == Get(c.compare_value)
            quoted == /\ ~IsDigit(Remove(Remove(val, "."), "-"))
                      /\ ~StartsWith(val, "\"")
                      /\ ~c.compare_value_is_property
            arg == IF quoted THEN "\"" \o val \o "\"" ELSE val
        IN EndsWith(result, ", " \o arg \o ")")

\* ------------------------------------------------------------------ C11
\* a simple-dialect rendering of one property comparison with a binary
\* comparator and a compare value has finished
SimpleBinaryRendered ==
    /\ Rendered
    /\ ~args.use_pega_functions
    /\ OneCondition(args.rule)
    /\ TheCondition(args.rule).condition_type = "PROPERTY_COMPARISON"
    /\ ~IsNone(TheCondition(args.rule).comparator)
    /\ Get(TheCondition(args.rule).comparator) \notin C8_Unary
    /\ ~IsNone(TheCondition(args.rule).compare_value)

\* the text '<property> <comparator-text> <value>', the value in double quotes
\* when quoted holds
C11_Phrase(c, quoted) ==
    OrEmpty(c.property_reference) \o " " \o ComparatorValue(Get(c.comparator)) \o " "
        \o (IF quoted THEN "\"" \o Get(c.compare_value) \o "\""
            ELSE Get(c.compare_value))

\* C11 as stated: for one group holding one property comparison with a binary
\* comparator the simple dialect gives '<property> <comparator-text> <value>',
\* the value in double quotes if and only if it is non-numeric by the rule
\* that strips '.' and '-' and tests for digits.
C11_QuotedIffNonNumeric ==
    SimpleBinaryRendered =>
        LET c == TheCondition(args.rule)
        IN result = C11_Phrase(c, ~IsDigit(Remove(Remove(Get(c.compare_value), "."), "-")))

\* C11 as amended: the value is in double quotes if and only if it is a
\* literal (not a property reference) that does not already start with a
\* double quote and is non-numeric by the stripping rule; otherwise it is
\* emitted unchanged.
C11_QuotedIffPlainNonNumericLiteral ==
    SimpleBinaryRendered =>
        LET c == TheCondition(args.rule)
            val == Get(c.compare_value)
        IN result = C11_Phrase(c, /\ ~c.compare_value_is_property
                                  /\ ~StartsWith(val, "\"")
                                  /\ ~IsDigit(Remove(Remove(val, "."), "-")))

C11_Witness ==
    /\ SimpleBinaryRendered
    /\ TheCondition(args.rule).compare_value_is_property
    /\ Get(TheCondition(args.rule).comparator) = "LESS_THAN"
    /\ result = ".Age is less than .Limit"

\* ------------------------------------------------------------------ C12
\* the entry of a call on a text holding one property entry
OnlyEntry == DocEntries(args.conditions_json)[1]

\* a create_when_rule call on a text of the documented shape holding one
\* property entry with the phrase of a unary comparator has finished
UnaryEntryCreated ==
    /\ Created
    /\ DocShaped(args.conditions_json)
    /\ Len(DocEntries(args.conditions_json)) = 1
    /\ ~HasKey(OnlyEntry, "rule")
    /\ DictGet(OnlyEntry, "comparator", JNull)
         \in { JStr(ComparatorValue(c)) : c \in C8_Unary }

\* C12: for the four unary comparators the rendered condition never contains
\* the compare value, even when one is supplied: the simple dialect gives
\* '<property> <comparator-text>' and the function dialect the one-argument
\* call 'func(<property argument>)', the argument being the property or its
\* @trim(...) wrapping.
C12_UnaryOmitsValue ==
    /\ (Rendered /\ OneCondition(args.rule)
                 /\ IsPropertyComparison(TheCondition(args.rule))
                 /\ ~IsNone(TheCondition(args.rule).comparator)
                 /\ Get(TheCondition(args.rule).comparator) \in C8_Unary) =>
          LET c == TheCondition(args.rule)
              comp == Get(c.comparator)
              prop == OrEmpty(c.property_reference)
          IN IF args.use_pega_functions
             THEN result \in { C8_Function(comp) \o "(" \o prop \o ")",
                               C8_Function(comp) \o "(@trim(" \o prop \o "))" }
             ELSE result = prop \o " " \o ComparatorValue(comp)
    /\ UnaryEntryCreated =>
          LET prop == EntryProperty(OnlyEntry)
              phrase == DictGet(OnlyEntry, "comparator", JNull).s
          IN /\ outcome = "return"
             /\ result.expression_simple = prop \o " " \o phrase
             /\ \E f \in { C8_Function(c) : c \in C8_Unary } :
                    result.expression \in { f \o "(" \o prop \o ")",
                                            f \o "(@trim(" \o prop \o "))" }

C12_Witness ==
    /\ Rendered
    /\ args.use_pega_functions
    /\ OneCondition(args.rule)
    /\ IsPropertyComparison(TheCondition(args.rule))
    /\ TheCondition(args.rule).comparator = Some("IS_BLANK")
    /\ TheCondition(args.rule).compare_value = Some("Premier")
    /\ result = "@isBlank(@trim(.Age))"

\* a unary entry that supplies a value, through create_when_rule
C12_WitnessCreated ==
    /\ UnaryEntryCreated
    /\ DictGet(OnlyEntry, "value", JNull) = JStr("Premier")
    /\ result.expression_simple = ".Age is not blank"

\* ------------------------------------------------------------------ C13
\* what remains of val after removing every '.' and '-' is a non-empty
\* string of decimal digits
C13_Numeric(val) ==
    /\ \A i \in 1..Len(val) : CharAt(val, i) \in Digits \cup {".", "-"}
    /\ \E i \in 1..Len(val) : CharAt(val, i) \in Digits

\* a rendering of one property comparison with a binary comparator and a
\* literal compare value that does not start with a double quote has finished
LiteralRendered ==
    /\ Rendered
    /\ OneCondition(args.rule)
    /\ IsPropertyComparison(TheCondition(args.rule))
    /\ ~IsNone(TheCondition(args.rule).comparator)
    /\ Get(TheCondition(args.rule).comparator) \notin C8_Unary
    /\ ~IsNone(TheCondition(args.rule).compare_value)
    /\ ~TheCondition(args.rule).compare_value_is_property
    /\ ~StartsWith(Get(TheCondition(args.rule).compare_value), "\"")

\* the comparators that are neither unary nor magnitude and have a function
C13_MappedText == {"EQUALS", "NOT_EQUALS", "CONTAINS", "STARTS_WITH", "ENDS_WITH"}

\* C13 as stated: in the simple dialect and, for every non-magnitude
\* comparator, in the function dialect, a literal value that does not start
\* with a double quote is left unquoted exactly when it is numeric by the
\* stripping rule.
C13_StrippingRuleEveryComparator ==
    (LiteralRendered
        /\ (args.use_pega_functions =>
               Get(TheCondition(args.rule).comparator) \notin C8_Magnitude)) =>
        LET val == Get(TheCondition(args.rule).compare_value)
        IN Contains(result, "\"" \o val \o "\"") <=> ~C13_Numeric(val)

\* C13 as amended: the function dialect applies the rule for the
\* non-magnitude comparators that have a function mapping (not for IS_IN and
\* IS_NOT_IN, whose placeholder never quotes); '1-2', '1.2.3' and '-5' are
\* unquoted, while '', '-' and '.' are quoted.
C13_StrippingRule ==
    (LiteralRendered
        /\ (args.use_pega_functions =>
               Get(TheCondition(args.rule).comparator) \in C13_MappedText)) =>
        LET val == Get(TheCondition(args.rule).compare_value)
            quoted == "\"" \o val \o "\""
        IN /\ Contains(result, quoted) <=> ~C13_Numeric(val)
           /\ IF args.use_pega_functions
              THEN EndsWith(result, ", " \o (IF C13_Numeric(val) THEN val ELSE quoted)
                                         \o ")")
              ELSE EndsWith(result, " " \o (IF C13_Numeric(val) THEN val ELSE quoted))
           /\ val \in {"1-2", "1.2.3", "-5"} => ~Contains(result, "\"")
           /\ val \in {"", "-", "."} => EndsWith(result, quoted)
                                           \/ EndsWith(result, quoted \o ")")

C13_Witness ==
    /\ LiteralRendered
    /\ args.use_pega_functions
    /\ TheCondition(args.rule).compare_value = Some("1-2")
    /\ result = "@contains(@trim(.Age), 1-2)"

\* ------------------------------------------------------------------ C14
\* a to_dict call has finished
DictRendered == pc = "done" /\ op = "to_dict"

\* the conditions of a rule in group order then condition order, and for
\* each of them the index of its group
AllConditions(rule) ==
    Flatten([ g \in 1..Len(rule.condition_groups) |->
                rule.condition_groups[g].conditions ])

OwnerGroup(rule) ==
    Flatten([ g \in 1..Len(rule.condition_groups) |->
                [ c \in 1..Len(rule.condition_groups[g].conditions) |-> g ] ])

\* C14: pyConditions holds exactly one record per condition, in group order
\* then condition order; each record's pyLogicalOperator is the symbol of the
\* operator of that condition's own group; and the dictionary does not depend
\* on the rule-level group_operator.
C14_OwnGroupOperator ==
    DictRendered =>
        LET conds == AllConditions(args.rule)
            owner == OwnerGroup(args.rule)
            recs == result.pyConditions
        IN /\ Len(recs) = Len(conds)
           /\ \A k \in 1..Len(conds) :
                /\ recs[k].pyLogicalOperator =
                     (IF args.rule.condition_groups[owner[k]].operator = "AND"
                      THEN "&&" ELSE "||")
                /\ IF conds[k].condition_type = "RULE_REFERENCE"
                   THEN /\ recs[k].pyConditionType = "rule"
                        /\ recs[k].pyRuleName = conds[k].referenced_rule
                   ELSE /\ recs[k].pyConditionType = "property"
                        /\ recs[k].pyPropertyRef = OrEmpty(conds[k].property_reference)
           /\ \A gop \in LogicalOperator :
                result = to_dict([args.rule EXCEPT !.group_operator = gop])

C14_Witness ==
    /\ DictRendered
    /\ Len(args.rule.condition_groups) = 2
    /\ args.rule.group_operator = "AND"
    /\ args.rule.condition_groups[1].operator = "OR"
    /\ args.rule.condition_groups[2].operator = "AND"
    /\ Len(args.rule.condition_groups[1].conditions) = 2
    /\ Len(args.rule.condition_groups[2].conditions) = 1
    /\ Len(result.pyConditions) = 3
    /\ result.pyConditions[1].pyLogicalOperator = "||"
    /\ result.pyConditions[2].pyLogicalOperator = "||"
    /\ result.pyConditions[3].pyLogicalOperator = "&&"

\* ------------------------------------------------------------------ C15
\* a validate_when_rule call has finished
Validated == pc = "done" /\ op = "validate_when_rule"

\* the four checks, on the text s
C15_Parens(s) ==
    Cardinality({ i \in 1..Len(s) : CharAt(s, i) = "(" })
        # Cardinality({ i \in 1..Len(s) : CharAt(s, i) = ")" })

C15_Braces(s) ==
    Cardinality({ i \in 1..Len(s) : CharAt(s, i) = "{" })
        # Cardinality({ i \in 1..Len(s) : CharAt(s, i) = "}" })

\* the text up to its last character that is no whitespace ends with an
\* operator
C15_Dangling(s) ==
    \E k \in 0..Len(s) :
        /\ \A m \in (k + 1)..Len(s) : CharAt(s, m) \in {" ", "\t", "\n", "\r", "\f"}
        /\ k > 0 => CharAt(s, k) \notin {" ", "\t", "\n", "\r", "\f"}
        /\ \E w \in {"&&", "||", "AND", "OR"} :
              /\ k >= Len(w)
              /\ SubSeq(s, k - Len(w) + 1, k) = w

\* some '@' is followed by a name, the name by '(' and that by a later ')'
C15_HasCall(s) ==
    \E i \in 1..Len(s) :
        /\ CharAt(s, i) = "@"
        /\ \E j \in (i + 1)..Len(s) :
              /\ CharAt(s, j) \notin WordChars
              /\ \A m \in (i + 1)..(j - 1) : CharAt(s, m) \in WordChars
              /\ j > i + 1
              /\ CharAt(s, j) = "("
              /\ \E k \in (j + 1)..Len(s) : CharAt(s, k) = ")"

C15_BadCall(s) == (\E i \in 1..Len(s) : CharAt(s, i) = "@") /\ ~C15_HasCall(s)

\* msg is one of the reported errors
Reports(msg) ==
    /\ ~IsNone(result.errors)
    /\ \E i \in 1..Len(Get(result.errors)) : Get(result.errors)[i] = msg

C16_MissingPropertyReference ==
    (Validated /\ args.expression = "CustomerAge is greater than 18") =>
        /\ ~result.valid
        /\ ~IsNone(result.errors)
        /\ \E i \in 1..Len(Get(result.errors)) :
              Contains(Lower(Get(result.errors)[i]), "property reference")

\* ------------------------------------------------------------------ C17
\* a to_expression call without arguments has finished
DefaultRendered == Rendered /\ "by_default" \in DOMAIN args

\* a create_when_rule call on a text of the documented shape holding one
\* property entry with a binary comparator phrase and a text value has
\* returned
BinaryEntryCreated ==
    /\ Created
    /\ DocShaped(args.conditions_json)
    /\ Len(DocEntries(args.conditions_json)) = 1
    /\ ~HasKey(OnlyEntry, "rule")
    /\ DictGet(OnlyEntry, "comparator", JNull)
         \in { JStr(ComparatorValue(c)) : c \in Comparator \ C8_Unary }
    /\ DictGet(OnlyEntry, "value", JNull).t = "str"
    /\ outcome = "return"

\* C17: to_expression called with its default arguments, and the
\* 'expression' field of a create_when_rule success result, render a
\* property comparison as the phrase '<property> <comparator-text> <value>';
\* one condition (.Age, GREATER_THAN_OR_EQUAL, 18) gives exactly
\* '.Age is greater than or equal to 18'.
C17_DefaultIsPhrase ==
    /\ (DefaultRendered /\ OneCondition(args.rule)
           /\ IsPropertyComparison(TheCondition(args.rule))
           /\ ~IsNone(TheCondition(args.rule).comparator)
           /\ Get(TheCondition(args.rule).comparator) \notin C8_Unary
           /\ ~IsNone(TheCondition(args.rule).compare_value)) =>
          LET c == TheCondition(args.rule)
              val == Get(c.compare_value)
          IN /\ StartsWith(result, OrEmpty(c.property_reference) \o " "
                                     \o ComparatorValue(Get(c.comparator)) \o " ")
             /\ EndsWith(result, val) \/ EndsWith(result, val \o "\"")
             /\ (c.comparator = Some("GREATER_THAN_OR_EQUAL") /\ val = "18") =>
                    result = ".Age is greater than or equal to 18"
    /\ BinaryEntryCreated =>
          StartsWith(result.expression,
                     EntryProperty(OnlyEntry) \o " "
                        \o DictGet(OnlyEntry, "comparator", JNull).s \o " ")

\* ------------------------------------------------------------------ C18
\* C18: the expression that to_expression returns by default (and the
\* 'expression' field of create_when_rule) contains the text 'AND' when a
\* group of two or more conditions is joined by AND, and the text 'OR' when
\* two or more groups are joined by OR.
C18_OperatorWords ==
    /\ (Created /\ DocShaped(args.conditions_json)
                /\ Len(DictGet(args.conditions_json.value, "groups", JList(<<>>)).items) = 1
                /\ Len(result.api_payload.pyConditions) >= 2
                /\ \A k \in 1..Len(result.api_payload.pyConditions) :
                      result.api_payload.pyConditions[k].pyLogicalOperator = "&&")
          => Contains(result.expression, "AND")
    /\ DefaultRendered =>
        /\ (\E g \in 1..Len(args.rule.condition_groups) :
               /\ Len(args.rule.condition_groups[g].conditions) >= 2
               /\ args.rule.condition_groups[g].operator = "AND")
              => Contains(result, "AND")
        /\ (Len(args.rule.condition_groups) >= 2 /\ args.rule.group_operator = "OR"
               /\ \A g \in 1..Len(args.rule.condition_groups) :
                     Len(args.rule.condition_groups[g].conditions) >= 1)
              => Contains(result, "OR")

\* ------------------------------------------------------------------ C20
\* a registry lookup has finished
TableLookedUp == pc = "done" /\ op = "get_table_properties"
TemplateLookedUp == pc = "done" /\ op = "get_campaign_rule_template"

\* the table names, and those of them that equal name when case is ignored
C20_Tables == {"CAR", "AAR", "MAR", "ELIGIBILITY", "INVESTMENT"}
C20_Known(name) == { t \in C20_Tables : Lower(t) = Lower(name) }

Repeated ==
    /\ pc = "done"
    /\ Len(earlier) = 1
    /\ earlier[1].op = op
    /\ DOMAIN earlier[1].args = DOMAIN args
    /\ earlier[1].args = args

Suggested == pc = "done" /\ op = "suggest_data_source"

\* C21: whenever the hint contains a customer-level keyword (as in
\* 'customer age and segment'), the 'recommendation' entry of
\* suggest_data_source is the CAR suggestion.
C21_CustomerKeywordRecommendsCar ==
    (Suggested /\ AnyKeyword(Lower(args.property_hint), customer_keywords)) =>
        /\ Len(result.recommendation) = 1
        /\ Get(result.recommendation).table = "CAR"

\* ------------------------------------------------------------------ C22
C22_Unmapped == {"IS_IN", "IS_NOT_IN"}

\* a function-dialect rendering of a rule of one property comparison with
\* IS_IN or IS_NOT_IN has finished
UnmappedRendered ==
    /\ Rendered
    /\ args.use_pega_functions
    /\ OneCondition(args.rule)
    /\ IsPropertyComparison(TheCondition(args.rule))
    /\ ~IsNone(TheCondition(args.rule).comparator)
    /\ Get(TheCondition(args.rule).comparator) \in C22_Unmapped

\* a create_when_rule call on a shaped text holding one property entry with
\* the phrase 'is in' or 'is not in' has finished
UnmappedEntryCreated ==
    /\ Created
    /\ DocShaped(args.conditions_json)
    /\ Len(DocEntries(args.conditions_json)) = 1
    /\ ~HasKey(OnlyEntry, "rule")
    /\ DictGet(OnlyEntry, "comparator", JNull) \in {JStr("is in"), JStr("is not in")}

\* the text of the 'value' member of an entry, '' when missing or null
EntryValue(e) ==
    IF HasKey(e, "value") /\ DictGet(e, "value", JNull).t = "str"
    THEN DictGet(e, "value", JNull).s ELSE ""

\* C22: in the function dialect a property comparison with IS_IN or IS_NOT_IN
\* has no function mapping and renders as the raw placeholder
\* '(<property> == <value>)', with no @trim wrapping and no quoting of the
\* value, whatever apply_trim and compare_value_is_property are.
C22_RawPlaceholder ==
    /\ UnmappedRendered =>
         LET c == TheCondition(args.rule)
             prop == IF Len(c.property_reference) = 1 THEN c.property_reference[1] ELSE ""
             val == IF Len(c.compare_value) = 1 THEN c.compare_value[1] ELSE ""
         IN /\ result = "(" \o prop \o " == " \o val \o ")"
            /\ ~Contains(result, "@")
            /\ ~Contains(val, "\"") => ~Contains(result, "\"")
    /\ UnmappedEntryCreated =>
         /\ outcome = "return"
         /\ result.expression = "(" \o EntryProperty(OnlyEntry) \o " == "
                                    \o EntryValue(OnlyEntry) \o ")"

C22_Witness ==
    /\ UnmappedRendered
    /\ TheCondition(args.rule).apply_trim
    /\ ~TheCondition(args.rule).compare_value_is_property
    /\ TheCondition(args.rule).comparator = Some("IS_NOT_IN")
    /\ result = "(.Age == Premier)"

\* ------------------------------------------------------------------ C23
\* a to_pega_xml call has finished
XmlRendered == pc = "done" /\ op = "to_pega_xml"

OperatorMarker(operator) ==
    "    <operator>" \o (IF operator = "AND" THEN "&&" ELSE "||") \o "</operator>"

GroupOperatorMarker(operator) ==
    "    <groupOperator>" \o (IF operator = "AND" THEN "&&" ELSE "||")
        \o "</groupOperator>"

\* the elements of items with marker between every two consecutive ones
RECURSIVE Interleaved(_, _)
Interleaved(items, marker) ==
    IF Len(items) <= 1 THEN items
    ELSE <<Head(items), marker>> \o Interleaved(Tail(items), marker)

\* the blocks of one group with its operator marker between them
GroupStream(group) ==
    Interleaved([ i \in 1..Len(group.conditions) |-> ConditionXml(group.conditions[i]) ],
                OperatorMarker(group.operator))

\* the streams of the groups with the group-operator marker between them
RECURSIVE RuleStream(_, _)
RuleStream(groups, marker) ==
    IF Len(groups) = 0 THEN <<>>
    ELSE IF Len(groups) = 1 THEN GroupStream(Head(groups))
    ELSE GroupStream(Head(groups)) \o <<marker>> \o RuleStream(Tail(groups), marker)

\* the text between '<conditions>' and '</conditions>' of an XML document
XmlBody(xml, rule) ==
    LET head == "<?xml version=\"1.0\" encoding=\"UTF-8\"?>\n"
                \o "<pega:WhenRule xmlns:pega=\"http://www.pega.com/rules\">\n"
                \o "  <ruleName>" \o rule.rule_name \o "</ruleName>\n"
                \o "  <appliesTo>" \o rule.applies_to \o "</appliesTo>\n"
                \o "  <description>" \o rule.description \o "</description>\n"
                \o "  <campaignId>" \o OrEmpty(rule.campaign_id) \o "</campaignId>\n"
                \o "  <conditions>\n"
        foot == "\n  </conditions>\n</pega:WhenRule>"
    IN IF StartsWith(xml, head) /\ EndsWith(xml, foot)
          /\ Len(xml) >= Len(head) + Len(foot)
       THEN Some(SubSeq(xml, Len(head) + 1, Len(xml) - Len(foot)))
       ELSE None

\* the number of places of s where sub begins
Occurrences(s, sub) ==
    Cardinality({ i \in 1..(Len(s) - Len(sub) + 1) : SubSeq(s, i, i + Len(sub) - 1) = sub })

\* sum(max(ni - 1, 0)) over the groups
RECURSIVE InnerGaps(_)
InnerGaps(groups) ==
    IF Len(groups) = 0 THEN 0
    ELSE (IF Len(Head(groups).conditions) > 1
          THEN Len(Head(groups).conditions) - 1 ELSE 0)
         + InnerGaps(Tail(groups))

\* C23: in the XML rendering the condition blocks appear in group order then
\* condition order as an infix stream: an <operator> marker carrying the
\* group's symbol appears between every two consecutive conditions of a group
\* and never after a group's last condition, and a <groupOperator> marker
\* carrying the rule's symbol appears between every two consecutive groups and
\* never after the last group; so a rule with G groups of sizes n1..nG has
\* sum(max(ni-1,0)) <operator> markers and max(G-1,0) <groupOperator> markers.
C23_InfixStream ==
    XmlRendered =>
        LET groups == args.rule.condition_groups
            body == XmlBody(result, args.rule)
        IN /\ Len(body) = 1
           /\ body[1] = Join(RuleStream(groups, GroupOperatorMarker(args.rule.group_operator)),
                             "\n")
           /\ Occurrences(result, "<operator>") = InnerGaps(groups)
           /\ Occurrences(result, "<groupOperator>")
                = (IF Len(groups) > 1 THEN Len(groups) - 1 ELSE 0)
           /\ ~Contains(result, "</operator>\n    <groupOperator>")
           /\ ~Contains(result, "</operator>\n  </conditions>")
           /\ (Len(groups) > 0 /\ Len(groups[Len(groups)].conditions) > 0) =>
                  ~Contains(result, "</groupOperator>\n  </conditions>")

C23_Witness ==
    /\ XmlRendered
    /\ Len(args.rule.condition_groups) = MaxGroups
    /\ Len(args.rule.condition_groups[1].conditions) = MaxConds
    /\ Len(args.rule.condition_groups[MaxGroups].conditions) = 1
    /\ args.rule.condition_groups[1].operator = "OR"
    /\ args.rule.group_operator = "AND"
    /\ Occurrences(result, "<operator>||</operator>") = MaxConds - 1
    /\ Occurrences(result, "<groupOperator>&&</groupOperator>") = MaxGroups - 1

\* ------------------------------------------------------------------ C24
\* a rendering call on a WhenRule has finished
RenderingDone == pc = "done" /\ op \in {"to_expression", "to_dict", "to_pega_xml"}

\* a template lookup of a known campaign type has finished
TemplateFound == TemplateLookedUp /\ args.campaign_type \in TemplateKeys

\* the texts of a template that are built from the campaign id
C24_IdTexts(template) ==
    {template.campaign_id}
    \cup { template.suggested_rules[i].name : i \in 1..Len(template.suggested_rules) }

\* the campaign ids of other calls: those of the enumerated lookups, and the
\* one of the template lookup kept in earlier
C24_OtherIds ==
    (TemplateCampaignIds
       \cup (IF Len(earlier) = 1 /\ earlier[1].op = "get_campaign_rule_template"
             THEN {earlier[1].args.campaign_id} ELSE {}))
    \ {args.campaign_id, ""}

C25_Token(group, use) ==
    LET n == Len(group.conditions)
        toks == [ i \in 1..n |-> _condition_to_expr(group.conditions[i], use) ]
    IN IF n = 0 THEN "()"
       ELSE IF n = 1 THEN toks[1]
       ELSE "(" \o Infix(toks, Separator(group.operator), n) \o ")"

\* a rendering of a rule that holds a group without conditions has finished
EmptyGroupRendered ==
    /\ Rendered
    /\ \E g \in 1..Len(args.rule.condition_groups) :
         Len(args.rule.condition_groups[g].conditions) = 0

\* C25: a condition group with zero conditions renders in to_expression as
\* the token '()' in both dialects (so a rule whose only group is empty
\* renders '()', not the empty string that a rule with zero groups renders),
\* and such a token takes part in the top-level join like any other group
\* token.
C25_EmptyGroupToken ==
    /\ EmptyGroupRendered =>
         LET G == Len(args.rule.condition_groups)
             toks == [ g \in 1..G |-> C25_Token(args.rule.condition_groups[g],
                                                args.use_pega_functions) ]
         IN /\ result = IF G = 1 THEN "()"
                        ELSE Infix(toks, Separator(args.rule.group_operator), G)
            /\ Contains(result, "()")
            /\ result # ""
    /\ (Created /\ args.conditions_json = GroupsDoc(JList(<<JObj(<<>>)>>))) =>
         /\ outcome = "return"
         /\ result.expression = "()"
         /\ result.expression_simple = "()"

C25_Witness ==
    /\ EmptyGroupRendered
    /\ ~args.use_pega_functions
    /\ Len(args.rule.condition_groups) = 2
    /\ args.rule.group_operator = "OR"
    /\ result = "() || .Age is greater than 18"

\* ------------------------------------------------------------------ C26
\* a create_when_rule call on a text of OperatorDocs has finished
OperatorsCreated == Created /\ args.conditions_json \in OperatorDocs

\* the symbol an operator member stands for: '&&' when the member is missing
\* or is exactly the text 'AND', '||' for every other value
C26_Symbol(d, k) ==
    IF ~HasKey(d, k) \/ DictGet(d, k, JNull) = JStr("AND") THEN "&&" ELSE "||"

\* C26: in create_when_rule a group's 'operator' and the specification's
\* 'group_operator' become AND only when the text is exactly 'AND' (or the
\* field is missing); every other value, including 'and', '&&', 'And' and
\* null, becomes OR without any error.
C26_ExactlyAnd ==
    OperatorsCreated =>
        LET data == args.conditions_json.value
            group == DictGet(data, "groups", JNull).items[1]
            sym == C26_Symbol(group, "operator")
            gsym == C26_Symbol(data, "group_operator")
        IN /\ outcome = "return"
           /\ result.status = "success"
           /\ result.expression
                = "(@greaterThan(.Age, 18) " \o sym
                  \o " {Rule IsValidRPQ evaluates to true}) " \o gsym
                  \o " @greaterThan(.Age, 18)"
           /\ Contains(result.xml, "<operator>" \o sym \o "</operator>")
           /\ Contains(result.xml, "<groupOperator>" \o gsym \o "</groupOperator>")

C26_Witness ==
    /\ OperatorsCreated
    /\ args.conditions_json = OperatorDoc(Some(JStr("and")), Some(JNull))
    /\ result.expression_simple
         = "(.Age is greater than 18 || {Rule IsValidRPQ evaluates to true})"
           \o " || .Age is greater than 18"

\* ------------------------------------------------------------------ C27
\* a rule reference as create_when_rule builds it, whose rule name is empty
\* or absent
C27_Nameless(c) ==
    /\ c.condition_type = "RULE_REFERENCE"
    /\ c.referenced_rule \in {None, Some("")}
    /\ IsNone(c.property_reference)
    /\ IsNone(c.comparator)
    /\ IsNone(c.pega_function)
    /\ IsNone(c.compare_value)

\* a call on a rule that holds one nameless rule reference has finished
NamelessCalled ==
    /\ pc = "done"
    /\ op \in {"to_expression", "to_pega_xml", "to_dict"}
    /\ OneCondition(args.rule)
    /\ C27_Nameless(TheCondition(args.rule))

\* a create_when_rule call on a shaped text holding the one entry
\* {"rule": ""} or {"rule": null}, with or without 'evaluates_to', has
\* finished
NamelessEntryCreated ==
    /\ Created
    /\ DocShaped(args.conditions_json)
    /\ Len(DocEntries(args.conditions_json)) = 1
    /\ HasKey(OnlyEntry, "rule")
    /\ DictGet(OnlyEntry, "rule", JStr("x")) \in {JStr(""), JNull}

\* C27: a rule-reference condition whose referenced rule name is empty or
\* absent is not rendered as a '{Rule ...}' token by to_expression: it goes
\* through the property-comparison path and gives '( == )' in the function
\* dialect and the empty string in the simple dialect, while to_pega_xml and
\* to_dict still emit it as a rule reference.
C27_NamelessRuleReference ==
    /\ (NamelessCalled /\ op = "to_expression") =>
         /\ result = IF args.use_pega_functions THEN "( == )" ELSE ""
         /\ ~Contains(result, "{Rule")
    /\ (NamelessCalled /\ op = "to_pega_xml") =>
         /\ Contains(result, "    <ruleReference>\n      <ruleName>")
         /\ ~Contains(result, "<condition>")
    /\ (NamelessCalled /\ op = "to_dict") =>
         /\ Len(result.pyConditions) = 1
         /\ result.pyConditions[1].pyConditionType = "rule"
         /\ result.pyConditions[1].pyRuleName = TheCondition(args.rule).referenced_rule
    /\ NamelessEntryCreated =>
         /\ outcome = "return"
         /\ result.expression = "( == )"
         /\ result.expression_simple = ""
         /\ Contains(result.xml, "<ruleReference>")
         /\ ~Contains(result.xml, "<condition>")
         /\ result.api_payload.pyConditions[1].pyConditionType = "rule"

C27_Witness ==
    /\ NamelessEntryCreated
    /\ DictGet(OnlyEntry, "rule", JStr("x")) = JNull
    /\ result.expression = "( == )"
    /\ Contains(result.xml, "<ruleName>None</ruleName>")

\* ------------------------------------------------------------------ C28
\* the characters the claim keeps out of property names and values
C28_Marks == {"(", ")", "{", "}", "@", "\""}

\* neither the property name nor the value of any entry holds such a character
C28_Clean(doc) ==
    \A i \in 1..Len(DocEntries(doc)) : \A mark \in C28_Marks :
        /\ ~Contains(EntryProperty(DocEntries(doc)[i]), mark)
        /\ ~Contains(EntryValue(DocEntries(doc)[i]), mark)

\* the call kept in earlier is a create_when_rule call that returned a
\* success result for a clean text, and the finished call has validated one
\* of its two expressions
CreatedThenValidated ==
    /\ Validated
    /\ Len(earlier) = 1
    /\ earlier[1].op = "create_when_rule"
    /\ earlier[1].outcome = "return"
    /\ "status" \in DOMAIN earlier[1].result
    /\ DocShaped(earlier[1].args.conditions_json)
    /\ C28_Clean(earlier[1].args.conditions_json)
    /\ args.expression \in { earlier[1].result.expression,
                             earlier[1].result.expression_simple }

\* a property entry that the simple dialect ends with an unquoted value whose
\* last characters spell an operator: a binary comparator, is_property true
C28_OperatorValue(e) ==
    /\ ~HasKey(e, "rule")
    /\ DictGet(e, "comparator", JNull)
         \notin { JStr(phrase) : phrase \in {"is true", "is false", "is blank",
                                             "is not blank"} }
    /\ DictGet(e, "is_property", JBool(FALSE)) = JBool(TRUE)
    /\ \E w \in {"AND", "OR", "&&", "||"} : EndsWith(RStrip(EntryValue(e)), w)

\* a rule entry without a rule name
C28_NamelessRule(e) ==
    HasKey(e, "rule") /\ DictGet(e, "rule", JStr("x")) \in {JStr(""), JNull}

\* the last group of the text holds one entry only, and the simple dialect
\* renders that entry so that the expression ends in an operator: an operator
\* value, or nothing at all after the group operator of an earlier group
C28_OperatorTail(doc) ==
    LET groups == DictGet(doc.value, "groups", JList(<<>>)).items
        entries == DictGet(groups[Len(groups)], "conditions", JList(<<>>)).items
    IN /\ Len(groups) >= 1
       /\ Len(entries) = 1
       /\ \/ C28_OperatorValue(entries[1])
          \/ Len(groups) >= 2 /\ C28_NamelessRule(entries[1])

ValuelessRendered ==
    /\ Rendered
    /\ OneCondition(args.rule)
    /\ IsPropertyComparison(TheCondition(args.rule))
    /\ ~IsNone(TheCondition(args.rule).comparator)
    /\ Get(TheCondition(args.rule).comparator) \notin C8_Unary
    /\ IsNone(TheCondition(args.rule).compare_value)

\* a create_when_rule call on a shaped text holding one property entry with
\* a binary comparator phrase and a missing or null 'value' has finished
ValuelessEntryCreated ==
    /\ Created
    /\ DocShaped(args.conditions_json)
    /\ Len(DocEntries(args.conditions_json)) = 1
    /\ ~HasKey(OnlyEntry, "rule")
    /\ DictGet(OnlyEntry, "comparator", JNull)
         \in { JStr(ComparatorValue(c)) : c \in Comparator \ C8_Unary }
    /\ DictGet(OnlyEntry, "value", JNull) = JNull

\* the comparator that a comparator phrase names
C29_ComparatorOf(phrase) ==
    CHOOSE c \in Comparator : ComparatorValue(c) = phrase

\* the simple dialect gives '<property> <comparator-text> None'
C29_SimplePhrase(prop, comp) == prop \o " " \o ComparatorValue(comp) \o " None"

\* C29 as stated: a property comparison with a binary comparator and no
\* compare value renders differently in the two dialects: the simple dialect
\* emits the literal text 'None' as the value, while the function dialect
\* emits an empty quoted string '""' for non-magnitude comparators and an
\* empty second argument for the four magnitude comparators.
C29_MissingValueEveryComparator ==
    ValuelessRendered =>
        LET c == TheCondition(args.rule)
            comp == Get(c.comparator)
        IN IF ~args.use_pega_functions
           THEN result = C29_SimplePhrase(OrEmpty(c.property_reference), comp)
           ELSE IF comp \in C8_Magnitude
           THEN EndsWith(result, ", )") /\ ~Contains(result, "\"")
           ELSE EndsWith(result, ", \"\")")

\* C29 as amended: the simple dialect emits the literal text 'None' as the
\* value; the function dialect emits an empty quoted string '""' as the second
\* argument for the five non-magnitude comparators that have a function, an
\* empty second argument for the four magnitude comparators, and the
\* placeholder '(<property> == )' for IS_IN and IS_NOT_IN.
C29_MissingValue ==
    /\ ValuelessRendered =>
         LET c == TheCondition(args.rule)
             comp == Get(c.comparator)
             prop == OrEmpty(c.property_reference)
         IN IF ~args.use_pega_functions
            THEN result = C29_SimplePhrase(prop, comp)
            ELSE IF comp \in C8_Magnitude
            THEN result = C8_Function(comp) \o "(" \o prop \o ", )"
            ELSE IF comp \in C13_MappedText
            THEN result = C8_Function(comp) \o "("
                            \o (IF c.apply_trim THEN "@trim(" \o prop \o ")" ELSE prop)
                            \o ", \"\")"
            ELSE result = "(" \o prop \o " == )"
    /\ ValuelessEntryCreated =>
         LET comp == C29_ComparatorOf(DictGet(OnlyEntry, "comparator", JNull).s)
         IN /\ outcome = "return"
            /\ result.expression_simple = C29_SimplePhrase(EntryProperty(OnlyEntry), comp)
            /\ comp \in C8_Magnitude => EndsWith(result.expression, ", )")
            /\ comp \in C13_MappedText => EndsWith(result.expression, ", \"\")")
            /\ comp \in C22_Unmapped => EndsWith(result.expression, " == )")

C29_Witness ==
    /\ ValuelessEntryCreated
    /\ ~HasKey(OnlyEntry, "value")
    /\ result.expression = "@contains(@trim(.Age), \"\")"
    /\ result.expression_simple = ".Age contains None"

\* ------------------------------------------------------------------ C30

\* the marks of one kind up to position k of s
C30_Marks(s, k, ch) == Cardinality({ i \in 1..k : CharAt(s, i) = ch })

\* some closing mark of s stands before the opening mark it would match
C30_ClosedEarly(s, open, close) ==
    \E k \in 1..Len(s) : C30_Marks(s, k, close) > C30_Marks(s, k, open)

\* as many opening marks as closing marks in the whole of s
C30_SameCount(s, open, close) ==
    C30_Marks(s, Len(s), open) = C30_Marks(s, Len(s), close)

\* C30: the parenthesis and brace checks of validate_when_rule compare
\* counts only, not nesting order: a text with as many '(' as ')' gets no
\* parenthesis error and one with as many '{' as '}' no brace error, also
\* when a closing mark comes first, so ')(' and '}{' are reported valid.
C30_CountsOnly ==
    Validated =>
        LET s == args.expression
        IN /\ C30_SameCount(s, "(", ")")
                 => ~Reports("Unbalanced parentheses in expression")
           /\ C30_SameCount(s, "{", "}")
                 => ~Reports("Unbalanced braces in rule references")
           /\ s \in {")(", "}{"} => result.valid /\ IsNone(result.errors)

\* a text that closes a parenthesis and a text that closes a brace before
\* opening it: each a validated text with equal counts and no error
C30_Witness ==
    /\ Validated
    /\ outcome = "return"
    /\ \/ /\ C30_ClosedEarly(args.expression, "(", ")")
          /\ C30_SameCount(args.expression, "(", ")")
          /\ Len(args.expression) > Len(")(")
       \/ /\ C30_ClosedEarly(args.expression, "{", "}")
          /\ C30_SameCount(args.expression, "{", "}")
          /\ Len(args.expression) > Len("}{")
    /\ result.valid
    /\ IsNone(result.errors)

====
